---- MODULE Spec2Model ----
(***************************************************************************)
(* KP astrology calculation engine: lordship resolver (sublord.py), horary *)
(* 1-249 table and its process-wide cache (horary.py), Vimshottari dasha   *)
(* subdivision (dasha.py).                                                 *)
(*                                                                         *)
(* Number representation.  The source computes with Python floats; the     *)
(* model computes with exact fixed-point integers:                         *)
(*   - an angle is an integer count of units of 1/DegUnit degree.  DegUnit *)
(*     is chosen so that every span the source derives (13deg20' star      *)
(*     span, period/120 of it, period/120 of that) is a whole number of    *)
(*     units and 360 degrees still fits a 32-bit integer;                  *)
(*   - a caller-supplied longitude, which may lie outside [0,360), is the  *)
(*     record [deg |-> whole degrees (floor), frac |-> units in            *)
(*     0..DegUnit-1];                                                      *)
(*   - round(x, 6) yields an integer count of micro-degrees;               *)
(*   - a Python exception is the record [raises |-> <exception name>].     *)
(* Binary floating-point rounding error (of the order of 1e-14 degree) is  *)
(* not represented: a value the text calls "exactly on a boundary" is      *)
(* exactly on it here.                                                     *)
(***************************************************************************)
EXTENDS Integers, Sequences, FiniteSets, TLC

\* units per degree: 1/5.4 micro-degree each (a multiple of 1080 = 9 * 120)
DegUnit == 1080 * 5000

\* bounds of the input sets
MaxOffset == 1
MaxTurns == 2

(***************************************************************************)
(* Static data (app/core/kp_data.py)                                       *)
(***************************************************************************)
VIMSHOTTARI_ORDER ==
    <<"Ketu", "Venus", "Sun", "Moon", "Mars", "Rahu", "Jupiter", "Saturn", "Mercury">>

VIMSHOTTARI_PERIODS ==
    [Ketu |-> 7, Venus |-> 20, Sun |-> 6, Moon |-> 10, Mars |-> 7,
     Rahu |-> 18, Jupiter |-> 16, Saturn |-> 19, Mercury |-> 17]

TOTAL_DASHA_YEARS == 120

\* 13.0 + 20.0 / 60.0 degrees
NAKSHATRA_SPAN == 13 * DegUnit + (20 * DegUnit) \div 60

\* the "start" field of the source rows is never read by the code and is left out
NAKSHATRAS ==
    << [index |-> 1,  name |-> "Ashwini",           lord |-> "Ketu"],
       [index |-> 2,  name |-> "Bharani",           lord |-> "Venus"],
       [index |-> 3,  name |-> "Krittika",          lord |-> "Sun"],
       [index |-> 4,  name |-> "Rohini",            lord |-> "Moon"],
       [index |-> 5,  name |-> "Mrigashira",        lord |-> "Mars"],
       [index |-> 6,  name |-> "Ardra",             lord |-> "Rahu"],
       [index |-> 7,  name |-> "Punarvasu",         lord |-> "Jupiter"],
       [index |-> 8,  name |-> "Pushya",            lord |-> "Saturn"],
       [index |-> 9,  name |-> "Ashlesha",          lord |-> "Mercury"],
       [index |-> 10, name |-> "Magha",             lord |-> "Ketu"],
       [index |-> 11, name |-> "Purva Phalguni",    lord |-> "Venus"],
       [index |-> 12, name |-> "Uttara Phalguni",   lord |-> "Sun"],
       [index |-> 13, name |-> "Hasta",             lord |-> "Moon"],
       [index |-> 14, name |-> "Chitra",            lord |-> "Mars"],
       [index |-> 15, name |-> "Swati",             lord |-> "Rahu"],
       [index |-> 16, name |-> "Vishakha",          lord |-> "Jupiter"],
       [index |-> 17, name |-> "Anuradha",          lord |-> "Saturn"],
       [index |-> 18, name |-> "Jyeshtha",          lord |-> "Mercury"],
       [index |-> 19, name |-> "Mula",              lord |-> "Ketu"],
       [index |-> 20, name |-> "Purva Ashadha",     lord |-> "Venus"],
       [index |-> 21, name |-> "Uttara Ashadha",    lord |-> "Sun"],
       [index |-> 22, name |-> "Shravana",          lord |-> "Moon"],
       [index |-> 23, name |-> "Dhanishta",         lord |-> "Mars"],
       [index |-> 24, name |-> "Shatabhisha",       lord |-> "Rahu"],
       [index |-> 25, name |-> "Purva Bhadrapada",  lord |-> "Jupiter"],
       [index |-> 26, name |-> "Uttara Bhadrapada", lord |-> "Saturn"],
       [index |-> 27, name |-> "Revati",            lord |-> "Mercury"] >>

ZODIAC_SIGNS ==
    << [index |-> 1,  name |-> "Aries",       lord |-> "Mars"],
       [index |-> 2,  name |-> "Taurus",      lord |-> "Venus"],
       [index |-> 3,  name |-> "Gemini",      lord |-> "Mercury"],
       [index |-> 4,  name |-> "Cancer",      lord |-> "Moon"],
       [index |-> 5,  name |-> "Leo",         lord |-> "Sun"],
       [index |-> 6,  name |-> "Virgo",       lord |-> "Mercury"],
       [index |-> 7,  name |-> "Libra",       lord |-> "Venus"],
       [index |-> 8,  name |-> "Scorpio",     lord |-> "Mars"],
       [index |-> 9,  name |-> "Sagittarius", lord |-> "Jupiter"],
       [index |-> 10, name |-> "Capricorn",   lord |-> "Saturn"],
       [index |-> 11, name |-> "Aquarius",    lord |-> "Saturn"],
       [index |-> 12, name |-> "Pisces",      lord |-> "Jupiter"] >>

(***************************************************************************)
(* Python primitives                                                       *)
(***************************************************************************)
\* list.index(x) of VIMSHOTTARI_ORDER, 0-based
OrderIndex(planet) ==
    CHOOSE i \in 0..8 : VIMSHOTTARI_ORDER[i + 1] = planet

\* VIMSHOTTARI_ORDER[i] with a 0-based index
OrderAt(i) == VIMSHOTTARI_ORDER[i + 1]

\* a Python exception as a value
Raise(kind) == [raises |-> kind]

Raised(r) == "raises" \in DOMAIN r

\* seq[i] with a 0-based index i >= 0: IndexError past the end
ListAt(seq, i) == IF i < Len(seq) THEN seq[i + 1] ELSE Raise("IndexError")

\* round(x, 6) of an angle of n units: the nearest count of micro-degrees.
\* One micro-degree is 27/5 units, so the value is 5n/27; 27 is odd, so no
\* value lies exactly half way and the rounding direction is never in doubt.
Round6(n) == 5 * (n \div 27) + (10 * (n % 27) + 27) \div 54

\* round(x, 4) of a value already rounded to m micro-degrees: the nearest
\* count of 1e-4 degree, a tie going to the even neighbour
Round4(m) ==
    LET q == m \div 100
        r == m % 100
    IN  IF r < 50 THEN q
        ELSE IF r > 50 THEN q + 1
        ELSE IF q % 2 = 0 THEN q ELSE q + 1

\* the angle of a normalized longitude record, in units
Units(longitude) == longitude.deg * DegUnit + longitude.frac

\* the longitude record of an angle given in units
Longitude(u) == [deg |-> u \div DegUnit, frac |-> u % DegUnit]

(***************************************************************************)
(* Lordship resolver (app/services/sublord.py)                             *)
(***************************************************************************)
\* `while longitude >= 360` written `> 360`
RECURSIVE normalize_longitude_gt(_)
normalize_longitude_gt(longitude) ==
    IF longitude.deg < 0
    THEN normalize_longitude_gt([longitude EXCEPT !.deg = @ + 360])
    ELSE IF longitude.deg > 360 \/ (longitude.deg = 360 /\ longitude.frac > 0)
    THEN normalize_longitude_gt([longitude EXCEPT !.deg = @ - 360])
    ELSE longitude

\* the two while loops: add 360 while negative, then subtract 360 while >= 360
RECURSIVE normalize_longitude(_)
normalize_longitude(longitude) ==
    IF longitude.deg < 0
    THEN normalize_longitude([longitude EXCEPT !.deg = @ + 360])
    ELSE IF longitude.deg >= 360
    THEN normalize_longitude([longitude EXCEPT !.deg = @ - 360])
    ELSE longitude

get_sign(longitude) ==
    LET lon == Units(normalize_longitude(longitude))
        sign_index == lon \div (30 * DegUnit)
        sign == ListAt(ZODIAC_SIGNS, sign_index)
        position_in_sign == lon - sign_index * (30 * DegUnit)
    IN  IF Raised(sign) THEN sign
        ELSE [index |-> sign.index, name |-> sign.name, lord |-> sign.lord,
              position_in_sign |-> Round6(position_in_sign)]

\* star_index = int(longitude / NAKSHATRA_SPAN); if star_index >= 27: star_index = 0
star_index_of(lon) ==
    LET star_index == lon \div NAKSHATRA_SPAN
    IN  IF star_index >= 27 THEN 0 ELSE star_index

\* pada = int(position_in_star / pada_span) + 1, capped at 4
pada_of(position_in_star) ==
    LET pada_span == NAKSHATRA_SPAN \div 4
        pada == position_in_star \div pada_span + 1
    IN  IF pada > 4 THEN 4 ELSE pada

get_star(longitude) ==
    LET lon == Units(normalize_longitude(longitude))
        star_index == star_index_of(lon)
        nakshatra == ListAt(NAKSHATRAS, star_index)
        position_in_star == lon - star_index * NAKSHATRA_SPAN
    IN  IF Raised(nakshatra) THEN nakshatra
        ELSE [index |-> nakshatra.index, name |-> nakshatra.name,
              lord |-> nakshatra.lord, pada |-> pada_of(position_in_star),
              position_in_star |-> Round6(position_in_star)]

\* the span of one part: (period / TOTAL_DASHA_YEARS) * span
part_span(planet, span) == (VIMSHOTTARI_PERIODS[planet] * span) \div TOTAL_DASHA_YEARS

\* the walk with `<=` in place of `<`
RECURSIVE walk_le(_, _, _, _, _)
walk_le(position, start_index, span, i, accumulated) ==
    IF i >= 9 THEN [found |-> FALSE]
    ELSE LET planet == OrderAt((start_index + i) % 9)
             sub_span == part_span(planet, span)
         IN  IF position <= accumulated + sub_span
             THEN [found |-> TRUE, lord |-> planet, start |-> accumulated,
                   span |-> sub_span]
             ELSE walk_le(position, start_index, span, i + 1, accumulated + sub_span)

\* the walk started at index 0 of the order instead of at start_index
RECURSIVE walk_from_zero(_, _, _, _, _)
walk_from_zero(position, start_index, span, i, accumulated) ==
    IF i >= 9 THEN [found |-> FALSE]
    ELSE LET planet == OrderAt(i % 9)
             sub_span == part_span(planet, span)
         IN  IF position < accumulated + sub_span
             THEN [found |-> TRUE, lord |-> planet, start |-> accumulated,
                   span |-> sub_span]
             ELSE walk_from_zero(position, start_index, span, i + 1, accumulated + sub_span)

\* the walk that never advances `accumulated`
RECURSIVE walk_no_accumulate(_, _, _, _, _)
walk_no_accumulate(position, start_index, span, i, accumulated) ==
    IF i >= 9 THEN [found |-> FALSE]
    ELSE LET planet == OrderAt((start_index + i) % 9)
             sub_span == part_span(planet, span)
         IN  IF position < accumulated + sub_span
             THEN [found |-> TRUE, lord |-> planet, start |-> accumulated,
                   span |-> sub_span]
             ELSE walk_no_accumulate(position, start_index, span, i + 1, accumulated)

\* The loop `for i in range(9)` of get_sub_lord and get_sub_sub_lord, from
\* iteration i with the running `accumulated`: the first part of `span`, in
\* Vimshottari order from start_index, with position < accumulated + sub_span
RECURSIVE walk(_, _, _, _, _)
walk(position, start_index, span, i, accumulated) ==
    IF i >= 9 THEN [found |-> FALSE]
    ELSE LET planet == OrderAt((start_index + i) % 9)
             sub_span == part_span(planet, span)
         IN  IF position < accumulated + sub_span
             THEN [found |-> TRUE, lord |-> planet, start |-> accumulated,
                   span |-> sub_span]
             ELSE walk(position, start_index, span, i + 1, accumulated + sub_span)

get_sub_lord(longitude) ==
    LET lon == Units(normalize_longitude(longitude))
        star_index == star_index_of(lon)
        nakshatra == ListAt(NAKSHATRAS, star_index)
        position_in_star == lon - star_index * NAKSHATRA_SPAN
    IN  IF Raised(nakshatra) THEN nakshatra
        ELSE LET start_index == OrderIndex(nakshatra.lord)
                 w == walk(position_in_star, start_index, NAKSHATRA_SPAN, 0, 0)
                 sub_lord == IF w.found THEN w.lord ELSE OrderAt((start_index + 8) % 9)
                 sub_start == IF w.found THEN w.start ELSE 0
             IN  [lord |-> sub_lord,
                  position_in_sub |-> Round6(position_in_star - sub_start)]

\* the second walk run over the star's span instead of the sub's span
get_sub_sub_lord_star_span(longitude) ==
    LET lon == Units(normalize_longitude(longitude))
        star_index == star_index_of(lon)
        nakshatra == ListAt(NAKSHATRAS, star_index)
        position_in_star == lon - star_index * NAKSHATRA_SPAN
    IN  IF Raised(nakshatra) THEN nakshatra
        ELSE LET star_start_index == OrderIndex(nakshatra.lord)
                 w == walk(position_in_star, star_start_index, NAKSHATRA_SPAN, 0, 0)
             IN  IF ~w.found THEN [lord |-> "Unknown"]
                 ELSE LET position_in_sub == position_in_star - w.start
                          sub_sub_start_index == OrderIndex(w.lord)
                          ww == walk(position_in_sub, sub_sub_start_index,
                                     NAKSHATRA_SPAN, 0, 0)
                      IN  [lord |-> IF ww.found THEN ww.lord
                                    ELSE OrderAt((sub_sub_start_index + 8) % 9)]

get_sub_sub_lord(longitude) ==
    LET lon == Units(normalize_longitude(longitude))
        star_index == star_index_of(lon)
        nakshatra == ListAt(NAKSHATRAS, star_index)
        position_in_star == lon - star_index * NAKSHATRA_SPAN
    IN  IF Raised(nakshatra) THEN nakshatra
        ELSE LET star_start_index == OrderIndex(nakshatra.lord)
                 w == walk(position_in_star, star_start_index, NAKSHATRA_SPAN, 0, 0)
             IN  IF ~w.found THEN [lord |-> "Unknown"]
                 ELSE LET position_in_sub == position_in_star - w.start
                          sub_sub_start_index == OrderIndex(w.lord)
                          ww == walk(position_in_sub, sub_sub_start_index, w.span, 0, 0)
                      IN  [lord |-> IF ww.found THEN ww.lord
                                    ELSE OrderAt((sub_sub_start_index + 8) % 9)]

\* f"{degrees:02d} deg {minutes:02d}'{seconds:05.2f}\" {sign_name}" as the tuple
\* <<degrees, minutes, seconds in hundredths as printed by %.2f, sign_name>>.
\* One minute is DegUnit/60 = 90000 units and one second 1500 units, so the
\* hundredths are 1/15 unit: 15 is odd and %.2f never meets a tie.
format_longitude_dms(longitude) ==
    LET lon == Units(normalize_longitude(longitude))
        sign_index == lon \div (30 * DegUnit)
        sign == ListAt(ZODIAC_SIGNS, sign_index)
        pos_in_sign == lon - sign_index * (30 * DegUnit)
        degrees == pos_in_sign \div DegUnit
        rest == pos_in_sign - degrees * DegUnit
        minutes == rest \div (DegUnit \div 60)
        rest2 == rest - minutes * (DegUnit \div 60)
    IN  IF Raised(sign) THEN sign
        ELSE <<degrees, minutes, (2 * rest2 + 15) \div 30, sign.name>>

get_sign_star_sub(longitude) ==
    LET lon == normalize_longitude(longitude)
        sign == get_sign(lon)
        star == get_star(lon)
        sub == get_sub_lord(lon)
        dms == format_longitude_dms(lon)
        sub_sub == get_sub_sub_lord(lon)
    IN  IF Raised(sign) THEN sign
        ELSE IF Raised(star) THEN star
        ELSE IF Raised(sub) THEN sub
        ELSE [longitude |-> Round6(Units(lon)),
              longitude_dms |-> dms,
              sign |-> [name |-> sign.name, lord |-> sign.lord,
                        position |-> Round4(sign.position_in_sign)],
              star |-> [name |-> star.name, lord |-> star.lord, pada |-> star.pada],
              sub_lord |-> sub.lord,
              sub_sub_lord |-> sub_sub.lord]

(***************************************************************************)
(* Horary 1-249 table (app/services/horary.py)                             *)
(***************************************************************************)
\* the split test without the strictness margin: `next_boundary <= abs_end`
crosses_boundary_inclusive(next_boundary, abs_end) == next_boundary <= abs_end

\* next_boundary < abs_end - 0.000001; 0.000001 degree is 27/5 units
crosses_boundary(next_boundary, abs_end) == 5 * (abs_end - next_boundary) > 27

\* the split that appends only the part up to the boundary
sub_intervals_first_part(abs_start, abs_end) ==
    LET next_boundary == (abs_start \div (30 * DegUnit) + 1) * (30 * DegUnit)
    IN  IF crosses_boundary(next_boundary, abs_end)
        THEN << <<abs_start, next_boundary>> >>
        ELSE << <<abs_start, abs_end>> >>

\* the interval list of one sub: split at the next multiple of 30 degrees
\* above abs_start when the sub reaches beyond it
sub_intervals(abs_start, abs_end) ==
    LET next_boundary == (abs_start \div (30 * DegUnit) + 1) * (30 * DegUnit)
    IN  IF crosses_boundary(next_boundary, abs_end)
        THEN << <<abs_start, next_boundary>>, <<next_boundary, abs_end>> >>
        ELSE << <<abs_start, abs_end>> >>

\* the sign taken from the interval end instead of its midpoint
sign_index_of_interval_end(interval_start, interval_end) ==
    (interval_end \div (30 * DegUnit)) % 12

\* mid_point = (interval_start + interval_end) / 2; sign_index = int(mid_point / 30) % 12.
\* Every interval bound is a whole multiple of DegUnit / 9, an even number of
\* units, so the halves are exact.
sign_index_of_interval(interval_start, interval_end) ==
    LET mid_point == interval_start \div 2 + interval_end \div 2
    IN  (mid_point \div (30 * DegUnit)) % 12

\* the record stored in horary_info for one interval
horary_entry(interval, nakshatra, sub_lord) ==
    LET current_sign == ZODIAC_SIGNS[sign_index_of_interval(interval[1], interval[2]) + 1]
    IN  [start_longitude |-> interval[1],
         end_longitude |-> interval[2],
         sign_lord |-> current_sign.lord,
         star_lord |-> nakshatra.lord,
         sub_lord |-> sub_lord,
         sign |-> current_sign.name,
         nakshatra |-> nakshatra.name]

\* the inner loop `for sub_i in range(9)` of one nakshatra, from sub_i with
\* the running sub_position: the entries it appends, in order
RECURSIVE horary_subs(_, _, _)
horary_subs(nak_index, sub_i, sub_position) ==
    IF sub_i >= 9 THEN << >>
    ELSE LET nakshatra == NAKSHATRAS[nak_index + 1]
             nak_start == nak_index * NAKSHATRA_SPAN
             start_sub_index == OrderIndex(nakshatra.lord)
             sub_lord == OrderAt((start_sub_index + sub_i) % 9)
             sub_span == part_span(sub_lord, NAKSHATRA_SPAN)
             abs_start == nak_start + sub_position
             abs_end == abs_start + sub_span
             intervals == sub_intervals(abs_start, abs_end)
         IN  [k \in 1..Len(intervals) |-> horary_entry(intervals[k], nakshatra, sub_lord)]
             \o horary_subs(nak_index, sub_i + 1, sub_position + sub_span)

\* the outer loop `for nak_index in range(27)`
RECURSIVE horary_stars(_)
horary_stars(nak_index) ==
    IF nak_index >= 27 THEN << >>
    ELSE horary_subs(nak_index, 0, 0) \o horary_stars(nak_index + 1)

\* the local dict horary_info built by the construction loop, keyed 1..N in
\* the order current_horary is incremented
built_horary_info == horary_stars(0)

\* the local dict horary_table built by the same loop
built_horary_table ==
    [n \in 1..Len(built_horary_info) |-> built_horary_info[n].start_longitude]

(***************************************************************************)
(* Exact arithmetic on products too wide for one machine integer           *)
(***************************************************************************)
\* <<floor(a * m / d), (a * m) mod d>> for a >= 0, m >= 0, d > 0, by binary
\* decomposition of m, so that no intermediate value exceeds 2 * d
RECURSIVE MulDivMod(_, _, _)
MulDivMod(a, m, d) ==
    IF m = 0 THEN <<0, 0>>
    ELSE LET h == MulDivMod(a, m \div 2, d)
             q2 == 2 * h[1] + (2 * h[2]) \div d
             r2 == (2 * h[2]) % d
         IN  IF m % 2 = 0 THEN <<q2, r2>>
             ELSE <<q2 + (a \div d) + ((r2 + (a % d)) \div d), (r2 + (a % d)) % d>>

\* int(a * m / d): Python int() truncates toward zero
IntMulDiv(a, m, d) ==
    IF a >= 0 THEN MulDivMod(a, m, d)[1] ELSE 0 - MulDivMod(0 - a, m, d)[1]

\* round(a * m / d) to the nearest integer, a tie going to the even neighbour
RoundMulDiv(a, m, d) ==
    LET h == MulDivMod(IF a >= 0 THEN a ELSE 0 - a, m, d)
        up == IF 2 * h[2] > d THEN 1
              ELSE IF 2 * h[2] < d THEN 0
              ELSE h[1] % 2
        n == h[1] + up
    IN  IF a >= 0 THEN n ELSE 0 - n

(***************************************************************************)
(* Vimshottari dasha (app/services/dasha.py)                               *)
(*                                                                         *)
(* A datetime is [day |-> whole days since the epoch of the model,         *)
(* tick |-> 0..TicksPerDay-1]; one tick is 1/1600000 day = 54000           *)
(* microseconds, the grain in which every timedelta the source builds is   *)
(* a whole number.  duration_years of a Mahadasha, Antardasha and          *)
(* Pratyantardasha is round(x, 4), held as a count of 1e-4 year; that of   *)
(* a Sookshma is round(x, 6), held as a count of 1e-6 year.  365.25 is     *)
(* 1461/4, and 365.25 / 120 / 10000 = 487 / TicksPerDay.                   *)
(***************************************************************************)
YearScale == 100 * 100

TicksPerDay == 16 * 100 * 1000

DashaPeriod(planet, start_date, end_date, duration_years, duration_days) ==
    [planet |-> planet, start_date |-> start_date, end_date |-> end_date,
     duration_years |-> duration_years, duration_days |-> duration_days]

\* date + timedelta(days=n) for an integer n
AddDays(date, n) == [date EXCEPT !.day = @ + n]

\* date + timedelta(days=x) for a fractional x of t ticks
AddTicks(date, t) ==
    [day |-> date.day + (date.tick + t) \div TicksPerDay,
     tick |-> (date.tick + t) % TicksPerDay]

\* a <= b and a < b on datetimes
DateLE(a, b) == a.day < b.day \/ (a.day = b.day /\ a.tick <= b.tick)

DateLT(a, b) == a.day < b.day \/ (a.day = b.day /\ a.tick < b.tick)

\* the balance with a boundary longitude left in the nakshatra that ends there
calculate_dasha_balance_closed_end(moon_longitude, birth_datetime) ==
    LET raw_index == IF moon_longitude > 0
                     THEN IntMulDiv(moon_longitude - 1, 1, NAKSHATRA_SPAN)
                     ELSE 0
        nakshatra_index == IF raw_index >= 27 THEN 0 ELSE raw_index
        nakshatra == NAKSHATRAS[nakshatra_index + 1]
        nakshatra_start == nakshatra_index * NAKSHATRA_SPAN
        position_in_nakshatra == moon_longitude - nakshatra_start
        remaining == NAKSHATRA_SPAN - position_in_nakshatra
        dasha_period_years == VIMSHOTTARI_PERIODS[nakshatra.lord]
        \* balance_years = remaining / NAKSHATRA_SPAN * dasha_period_years
        balance_days == IntMulDiv(remaining, dasha_period_years * 1461, 4 * NAKSHATRA_SPAN)
        elapsed_days == IntMulDiv(position_in_nakshatra, dasha_period_years * 1461,
                                  4 * NAKSHATRA_SPAN)
    IN  [birth_dasha_lord |-> nakshatra.lord,
         balance_years |-> RoundMulDiv(remaining, dasha_period_years * YearScale,
                                       NAKSHATRA_SPAN),
         balance_days |-> balance_days,
         dasha_start_date |-> AddDays(birth_datetime, 0 - elapsed_days),
         dasha_end_date |-> AddDays(birth_datetime, balance_days),
         nakshatra_name |-> nakshatra.name,
         nakshatra_index |-> nakshatra_index + 1,
         position_in_nakshatra |-> Round6(position_in_nakshatra)]

\* moon_longitude is the angle in units, as passed by the caller (not normalized)
calculate_dasha_balance(moon_longitude, birth_datetime) ==
    LET raw_index == IntMulDiv(moon_longitude, 1, NAKSHATRA_SPAN)
        nakshatra_index == IF raw_index >= 27 THEN 0 ELSE raw_index
        nakshatra == NAKSHATRAS[nakshatra_index + 1]
        nakshatra_start == nakshatra_index * NAKSHATRA_SPAN
        position_in_nakshatra == moon_longitude - nakshatra_start
        remaining == NAKSHATRA_SPAN - position_in_nakshatra
        dasha_period_years == VIMSHOTTARI_PERIODS[nakshatra.lord]
        \* balance_years = remaining / NAKSHATRA_SPAN * dasha_period_years
        balance_days == IntMulDiv(remaining, dasha_period_years * 1461, 4 * NAKSHATRA_SPAN)
        elapsed_days == IntMulDiv(position_in_nakshatra, dasha_period_years * 1461,
                                  4 * NAKSHATRA_SPAN)
    IN  [birth_dasha_lord |-> nakshatra.lord,
         balance_years |-> RoundMulDiv(remaining, dasha_period_years * YearScale,
                                       NAKSHATRA_SPAN),
         balance_days |-> balance_days,
         dasha_start_date |-> AddDays(birth_datetime, 0 - elapsed_days),
         dasha_end_date |-> AddDays(birth_datetime, balance_days),
         nakshatra_name |-> nakshatra.name,
         nakshatra_index |-> nakshatra_index + 1,
         position_in_nakshatra |-> Round6(position_in_nakshatra)]

\* the loop with the first Mahadasha given its full period instead of the balance
RECURSIVE mahadasha_loop_full_first(_, _, _, _, _)
mahadasha_loop_full_first(balance_info, start_index, num_periods, i, current_date) ==
    IF i >= num_periods THEN << >>
    ELSE LET planet == OrderAt((start_index + i) % 9)
             duration_years == VIMSHOTTARI_PERIODS[planet] * YearScale
             duration_days == IntMulDiv(duration_years, 1461, 4 * YearScale)
             end_date == AddDays(current_date, duration_days)
         IN  <<DashaPeriod(planet, current_date, end_date, duration_years, duration_days)>>
             \o mahadasha_loop_full_first(balance_info, start_index, num_periods, i + 1,
                                          end_date)

\* the loop of calculate_mahadasha_periods from iteration i
RECURSIVE mahadasha_loop(_, _, _, _, _)
mahadasha_loop(balance_info, start_index, num_periods, i, current_date) ==
    IF i >= num_periods THEN << >>
    ELSE LET planet == OrderAt((start_index + i) % 9)
             duration_years == IF i = 0 THEN balance_info.balance_years
                               ELSE VIMSHOTTARI_PERIODS[planet] * YearScale
             duration_days == IntMulDiv(duration_years, 1461, 4 * YearScale)
             end_date == AddDays(current_date, duration_days)
         IN  <<DashaPeriod(planet, current_date, end_date, duration_years, duration_days)>>
             \o mahadasha_loop(balance_info, start_index, num_periods, i + 1, end_date)

calculate_mahadasha_periods(moon_longitude, birth_datetime, num_periods) ==
    LET balance_info == calculate_dasha_balance(moon_longitude, birth_datetime)
        start_index == OrderIndex(balance_info.birth_dasha_lord)
    IN  mahadasha_loop(balance_info, start_index, num_periods, 0, birth_datetime)

\* the loop of calculate_antardasha_periods from iteration i
RECURSIVE antardasha_loop(_, _, _, _)
antardasha_loop(md_duration_years, start_index, i, current_date) ==
    IF i >= 9 THEN << >>
    ELSE LET planet == OrderAt((start_index + i) % 9)
             planet_period == VIMSHOTTARI_PERIODS[planet]
             \* ad_duration_years = md_duration_years * planet_period / 120
             ad_duration_days == IntMulDiv(md_duration_years, planet_period * 487, TicksPerDay)
             end_date == AddDays(current_date, ad_duration_days)
         IN  <<DashaPeriod(planet, current_date, end_date,
                           RoundMulDiv(md_duration_years, planet_period, TOTAL_DASHA_YEARS),
                           ad_duration_days)>>
             \o antardasha_loop(md_duration_years, start_index, i + 1, end_date)

calculate_antardasha_periods(mahadasha) ==
    antardasha_loop(mahadasha.duration_years, OrderIndex(mahadasha.planet), 0,
                    mahadasha.start_date)

\* the loop of calculate_pratyantardasha_periods from iteration i
RECURSIVE pratyantardasha_loop(_, _, _, _)
pratyantardasha_loop(ad_duration_years, start_index, i, current_date) ==
    IF i >= 9 THEN << >>
    ELSE LET planet == OrderAt((start_index + i) % 9)
             planet_period == VIMSHOTTARI_PERIODS[planet]
             days == IntMulDiv(ad_duration_years, planet_period * 487, TicksPerDay)
             \* max(1, int(pad_duration_years * 365.25))
             pad_duration_days == IF days < 1 THEN 1 ELSE days
             end_date == AddDays(current_date, pad_duration_days)
         IN  <<DashaPeriod(planet, current_date, end_date,
                           RoundMulDiv(ad_duration_years, planet_period, TOTAL_DASHA_YEARS),
                           pad_duration_days)>>
             \o pratyantardasha_loop(ad_duration_years, start_index, i + 1, end_date)

\* the children taken from the head of the order instead of from the parent's lord
calculate_pratyantardasha_periods_from_head(antardasha) ==
    pratyantardasha_loop(antardasha.duration_years, 0, 0, antardasha.start_date)

calculate_pratyantardasha_periods(antardasha) ==
    pratyantardasha_loop(antardasha.duration_years, OrderIndex(antardasha.planet), 0,
                         antardasha.start_date)

\* the loop of calculate_sookshma_dasha_periods from iteration i
RECURSIVE sookshma_loop(_, _, _, _)
sookshma_loop(pad_duration_years, start_index, i, current_date) ==
    IF i >= 9 THEN << >>
    ELSE LET planet == OrderAt((start_index + i) % 9)
             planet_period == VIMSHOTTARI_PERIODS[planet]
             \* total_days = sd_duration_years * 365.25, a whole number of ticks
             total_days == pad_duration_years * planet_period * 487
             days == IntMulDiv(pad_duration_years, planet_period * 487, TicksPerDay)
             duration_days == IF days < 1 THEN 0 ELSE days
             end_date == AddTicks(current_date, total_days)
         IN  <<DashaPeriod(planet, current_date, end_date,
                           RoundMulDiv(pad_duration_years, 5 * planet_period, 6),
                           duration_days)>>
             \o sookshma_loop(pad_duration_years, start_index, i + 1, end_date)

calculate_sookshma_dasha_periods(pratyantardasha) ==
    sookshma_loop(pratyantardasha.duration_years, OrderIndex(pratyantardasha.planet), 0,
                  pratyantardasha.start_date)

\* Python None
\* the value of an expression evaluated once: the element of a one-element set
TheOne(S) == CHOOSE x \in S : TRUE

None == [none |-> TRUE]

\* md.start_date <= query_datetime < md.end_date
contains(period, query_datetime) ==
    DateLE(period.start_date, query_datetime) /\ DateLT(query_datetime, period.end_date)

\* for p in periods: if p contains query_datetime: current = p; break
first_containing(periods, query_datetime) ==
    TheOne({ LET hits == { i \in 1..Len(ps) : contains(ps[i], query_datetime) }
             IN  IF hits = {} THEN None
                 ELSE ps[CHOOSE i \in hits : \A j \in hits : i <= j] :
               ps \in {periods} })

\* dasha_string is held as the tuple of the parts that "-".join puts together;
\* "N/A" is the one-part tuple <<"N/A">>
find_current_dasha(moon_longitude, birth_datetime, query_datetime) ==
    LET part(p) == IF p # None THEN <<p.planet>> ELSE << >>
        found(current_md, current_ad, current_pad, current_sd) ==
            [current_mahadasha |-> current_md, current_antardasha |-> current_ad,
             current_pratyantardasha |-> current_pad,
             current_sookshma_dasha |-> current_sd,
             dasha_string |-> <<current_md.planet>> \o part(current_ad)
                              \o part(current_pad) \o part(current_sd)]
        below_pad(current_md, current_ad, current_pad) ==
            TheOne({ found(current_md, current_ad, current_pad, current_sd) :
                       current_sd \in
                         {IF current_pad # None
                          THEN first_containing(
                                   calculate_sookshma_dasha_periods(current_pad),
                                   query_datetime)
                          ELSE None} })
        below_ad(current_md, current_ad) ==
            TheOne({ below_pad(current_md, current_ad, current_pad) :
                       current_pad \in
                         {IF current_ad # None
                          THEN first_containing(
                                   calculate_pratyantardasha_periods(current_ad),
                                   query_datetime)
                          ELSE None} })
        below_md(current_md) ==
            TheOne({ below_ad(current_md, current_ad) :
                       current_ad \in
                         {first_containing(calculate_antardasha_periods(current_md),
                                           query_datetime)} })
    IN  TheOne({ IF current_md = None
                 THEN [current_mahadasha |-> None, current_antardasha |-> None,
                       current_pratyantardasha |-> None, current_sookshma_dasha |-> None,
                       dasha_string |-> <<"N/A">>,
                       error |-> "Query date is outside Dasha range"]
                 ELSE below_md(current_md) :
                   current_md \in
                     {first_containing(
                          calculate_mahadasha_periods(moon_longitude, birth_datetime, 18),
                          query_datetime)} })

(***************************************************************************)
(* Julian Day (app/services/astronomy.py)                                  *)
(*                                                                         *)
(* A Julian Day is [half |-> h, sec |-> s], the number h / 2 + s / 86400:  *)
(* the calendar part of the source's formula ends in .5 and the time of    *)
(* day is a whole number of seconds.  A decimal hour is held as its        *)
(* number of seconds (hour x 3600).                                        *)
(***************************************************************************)
SecondsPerDay == 24 * 3600

\* int(x / y) for integers x and y > 0: truncation toward zero
IntDiv(x, y) == IF x >= 0 THEN x \div y ELSE 0 - ((0 - x) \div y)

date_to_julian_day(year, month, day, hour, minute, second, timezone_offset) ==
    LET \* decimal_hour, in seconds
        decimal_hour == hour * 3600 + minute * 60 + second - timezone_offset * 3600
        y == IF month <= 2 THEN year - 1 ELSE year
        m == IF month <= 2 THEN month + 12 ELSE month
        A == IntDiv(y, 100)
        B == 2 - A + IntDiv(A, 4)
        \* int(365.25 * (year + 4716)) + int(30.6001 * (month + 1)) + day + B
        whole == IntDiv(1461 * (y + 4716), 4) + IntDiv(306001 * (m + 1), 10000) + day + B
    IN  \* ... - 1524.5, then jd += day_fraction
        [half |-> 2 * whole - 3049, sec |-> decimal_hour]

julian_day_to_date(jd) ==
    LET \* jd = jd + 0.5; Z = int(jd); F = jd - Z
        halves == jd.half + 1
        secs == jd.sec + (SecondsPerDay \div 2) * (halves % 2)
        Z == halves \div 2 + secs \div SecondsPerDay
        F == secs % SecondsPerDay
        \* alpha = int((Z - 1867216.25) / 36524.25)
        alpha == IntDiv(4 * Z - 7468865, 146097)
        A == IF Z < 2299161 THEN Z ELSE Z + 1 + alpha - IntDiv(alpha, 4)
        B == A + 1524
        \* C = int((B - 122.1) / 365.25)
        C == IntDiv(20 * B - 2442, 7305)
        D == IntDiv(1461 * C, 4)
        \* E = int((B - D) / 30.6001)
        E == IntDiv(10000 * (B - D), 306001)
        day == B - D - IntDiv(306001 * E, 10000)
        month == IF E < 14 THEN E - 1 ELSE E - 13
        year == IF month > 2 THEN C - 4716 ELSE C - 4715
    IN  <<year, month, day, F>>

(***************************************************************************)
(* Ayanamsa (app/services/ayanamsa.py)                                     *)
(*                                                                         *)
(* An angle here is [arcsec |-> a, frac |-> f], the number                 *)
(* a + f / ArcUnit arc-seconds with 0 <= f < ArcUnit.  The elapsed years   *)
(* t are held in tenths of a year; the Julian Days the model supplies lie  *)
(* on whole tenths of their year, where the quotient below is exact.       *)
(***************************************************************************)
ArcUnit == 10000 * 10000

Arc(arcsec, frac) == [arcsec |-> arcsec + frac \div ArcUnit, frac |-> frac % ArcUnit]

BASE_YEAR == 1900

\* 22 + 22 / 60.0 + 15.7 / 3600.0 degrees
BASE_NEW_AYANAMSA == Arc(22 * 3600 + 22 * 60 + 15, (7 * ArcUnit) \div 10)

\* 22 + 22 / 60.0 + 0.0 / 3600.0 degrees
BASE_OLD_AYANAMSA == Arc(22 * 3600 + 22 * 60 + 0, 0)

\* 50.2388475 arc-seconds per year, in 1e-7 arc-second
PRECESSION_RATE == 502388475

\* 0.000111 arc-seconds per year squared, in 1e-6 arc-second
ANNUAL_ADJUSTMENT == 111

\* year + day_of_year / days_in_year, in tenths of a year
julian_day_to_year_fraction(jd) ==
    LET date == julian_day_to_date(jd)
        year == date[1]
        jan1_jd == date_to_julian_day(year, 1, 1, 0, 0, 0, 0)
        \* day_of_year = jd - jan1_jd, in seconds
        day_of_year == (jd.half - jan1_jd.half) * (SecondsPerDay \div 2)
                       + (jd.sec - jan1_jd.sec)
        days_in_year == IF (year % 4 = 0 /\ year % 100 # 0) \/ year % 400 = 0
                        THEN 366 ELSE 365
    IN  10 * year + (10 * day_of_year) \div (days_in_year * SecondsPerDay)

\* t * PRECESSION_RATE + (t * t * ANNUAL_ADJUSTMENT), for t in tenths of a year
precession_arcsec(t) ==
    LET linear == MulDivMod(PRECESSION_RATE, IF t >= 0 THEN t ELSE 0 - t, ArcUnit)
        square == t * t * ANNUAL_ADJUSTMENT
    IN  IF t >= 0 THEN Arc(linear[1], linear[2] + square)
        ELSE Arc(0 - linear[1], square - linear[2])

\* the new formula on the old base
calculate_kp_new_ayanamsa_old_base(jd) ==
    LET t == julian_day_to_year_fraction(jd) - 10 * BASE_YEAR
        precession == precession_arcsec(t)
    IN  Arc(BASE_OLD_AYANAMSA.arcsec + precession.arcsec,
            BASE_OLD_AYANAMSA.frac + precession.frac)

calculate_kp_new_ayanamsa(jd) ==
    LET t == julian_day_to_year_fraction(jd) - 10 * BASE_YEAR
        precession == precession_arcsec(t)
    IN  Arc(BASE_NEW_AYANAMSA.arcsec + precession.arcsec,
            BASE_NEW_AYANAMSA.frac + precession.frac)

calculate_kp_old_ayanamsa(jd) ==
    LET t == julian_day_to_year_fraction(jd) - 10 * BASE_YEAR
        precession == precession_arcsec(t)
    IN  Arc(BASE_OLD_AYANAMSA.arcsec + precession.arcsec,
            BASE_OLD_AYANAMSA.frac + precession.frac)

\* str.lower() on the mode names the model supplies
lower(str) ==
    CASE str \in {"manual", "Manual", "MANUAL"} -> "manual"
      [] str \in {"old", "Old", "OLD"} -> "old"
      [] str \in {"new", "New"} -> "new"
      [] OTHER -> str

\* manual mode matched without lower()
calculate_ayanamsa_case_sensitive(jd, ayanamsa_type, manual_value) ==
    IF ayanamsa_type = "manual"
    THEN IF manual_value = None THEN Raise("ValueError")
         ELSE <<manual_value, "Manual">>
    ELSE IF lower(ayanamsa_type) = "old"
    THEN <<calculate_kp_old_ayanamsa(jd), "KP Old (KSK)">>
    ELSE <<calculate_kp_new_ayanamsa(jd), "KP New (Balachandran)">>

calculate_ayanamsa(jd, ayanamsa_type, manual_value) ==
    IF lower(ayanamsa_type) = "manual"
    THEN IF manual_value = None THEN Raise("ValueError")
         ELSE <<manual_value, "Manual">>
    ELSE IF lower(ayanamsa_type) = "old"
    THEN <<calculate_kp_old_ayanamsa(jd), "KP Old (KSK)">>
    ELSE <<calculate_kp_new_ayanamsa(jd), "KP New (Balachandran)">>

(***************************************************************************)
(* House cusps and the horary rotation (app/services/astronomy.py,         *)
(* app/services/houses.py, app/api/routes.py)                              *)
(*                                                                         *)
(* An angle here is [deg |-> d, frac |-> f], the number d + f / FineUnit   *)
(* degrees with 0 <= f < FineUnit.  One microdegree is 27 fine units and   *)
(* one unit of the horary table (1 / DegUnit degree) is 5, so a value      *)
(* rounded to 6 decimals and a horary boundary are both exact.  The        *)
(* tropical Ascendant and Midheaven, which the source derives from the     *)
(* sidereal time, are supplied to the model as angles.  A house cusp is    *)
(* held as [house, longitude, tropical_longitude]; its lordship fields,    *)
(* derived from the longitude by get_sign_star_sub, are not repeated.      *)
(***************************************************************************)
FineUnit == 27 * 1000 * 1000

Angle(deg, frac) == [deg |-> deg + frac \div FineUnit, frac |-> frac % FineUnit]

AnglePlus(a, b) == Angle(a.deg + b.deg, a.frac + b.frac)

AngleMinus(a, b) == Angle(a.deg - b.deg, a.frac - b.frac)

AngleLT(a, b) == a.deg < b.deg \/ (a.deg = b.deg /\ a.frac < b.frac)

\* k * a / 3 for an angle a >= 0 that is a whole number of thirds
AngleThirds(a, k) ==
    Angle(k * (a.deg \div 3), k * (((a.deg % 3) * FineUnit + a.frac) \div 3))

\* round(a, 6)
RoundMicro(a) == Angle(a.deg, 27 * ((a.frac + 13) \div 27))

\* a value of the horary table as an angle
AngleOfUnits(u) == Angle(u \div DegUnit, 5 * (u % DegUnit))

RECURSIVE normalize_angle(_)
normalize_angle(angle) ==
    IF angle.deg < 0 THEN normalize_angle([angle EXCEPT !.deg = @ + 360])
    ELSE IF angle.deg >= 360 THEN normalize_angle([angle EXCEPT !.deg = @ - 360])
    ELSE angle

\* the arc from the Midheaven to the Ascendant measured backward
calculate_placidus_cusps_backward_arc(asc, mc) ==
    LET half_turn == Angle(180, 0)
        ic == normalize_angle(AnglePlus(mc, half_turn))
        desc == normalize_angle(AnglePlus(asc, half_turn))
        arc_mc_to_asc == normalize_angle(AngleMinus(mc, asc))
        arc_asc_to_ic == normalize_angle(AngleMinus(ic, asc))
        arc_ic_to_desc == normalize_angle(AngleMinus(desc, ic))
        arc_desc_to_mc == IF AngleLT(mc, desc)
                          THEN normalize_angle(AngleMinus(AnglePlus(mc, Angle(360, 0)), desc))
                          ELSE normalize_angle(AngleMinus(mc, desc))
    IN  << asc,
           normalize_angle(AnglePlus(asc, AngleThirds(arc_asc_to_ic, 1))),
           normalize_angle(AnglePlus(asc, AngleThirds(arc_asc_to_ic, 2))),
           ic,
           normalize_angle(AnglePlus(ic, AngleThirds(arc_ic_to_desc, 1))),
           normalize_angle(AnglePlus(ic, AngleThirds(arc_ic_to_desc, 2))),
           desc,
           normalize_angle(AnglePlus(desc, AngleThirds(arc_desc_to_mc, 1))),
           normalize_angle(AnglePlus(desc, AngleThirds(arc_desc_to_mc, 2))),
           mc,
           normalize_angle(AnglePlus(mc, AngleThirds(arc_mc_to_asc, 1))),
           normalize_angle(AnglePlus(mc, AngleThirds(arc_mc_to_asc, 2))) >>

\* the twelve tropical cusps, from the tropical Ascendant and Midheaven
calculate_placidus_cusps(asc, mc) ==
    LET half_turn == Angle(180, 0)
        ic == normalize_angle(AnglePlus(mc, half_turn))
        desc == normalize_angle(AnglePlus(asc, half_turn))
        arc_mc_to_asc == normalize_angle(AngleMinus(asc, mc))
        arc_asc_to_ic == normalize_angle(AngleMinus(ic, asc))
        arc_ic_to_desc == normalize_angle(AngleMinus(desc, ic))
        arc_desc_to_mc == IF AngleLT(mc, desc)
                          THEN normalize_angle(AngleMinus(AnglePlus(mc, Angle(360, 0)), desc))
                          ELSE normalize_angle(AngleMinus(mc, desc))
    IN  << asc,
           normalize_angle(AnglePlus(asc, AngleThirds(arc_asc_to_ic, 1))),
           normalize_angle(AnglePlus(asc, AngleThirds(arc_asc_to_ic, 2))),
           ic,
           normalize_angle(AnglePlus(ic, AngleThirds(arc_ic_to_desc, 1))),
           normalize_angle(AnglePlus(ic, AngleThirds(arc_ic_to_desc, 2))),
           desc,
           normalize_angle(AnglePlus(desc, AngleThirds(arc_desc_to_mc, 1))),
           normalize_angle(AnglePlus(desc, AngleThirds(arc_desc_to_mc, 2))),
           mc,
           normalize_angle(AnglePlus(mc, AngleThirds(arc_mc_to_asc, 1))),
           normalize_angle(AnglePlus(mc, AngleThirds(arc_mc_to_asc, 2))) >>

\* houses.calculate_house_cusps, given the tropical cusps of the instant
calculate_house_cusps(tropical_cusps, ayanamsa) ==
    [house_num \in 1..12 |->
        LET tropical_cusp == tropical_cusps[house_num]
            sidereal_cusp == normalize_angle(AngleMinus(tropical_cusp, ayanamsa))
        IN  [house |-> house_num,
             longitude |-> RoundMicro(sidereal_cusp),
             tropical_longitude |-> RoundMicro(tropical_cusp)]]

\* houses.calculate_ascendant, given the tropical Ascendant of the instant
calculate_ascendant(tropical_asc, ayanamsa) ==
    [name |-> "Ascendant",
     longitude |-> RoundMicro(normalize_angle(AngleMinus(tropical_asc, ayanamsa)))]

\* the offset taken the other way round
rotation_offset_reversed(horary_asc_longitude, astronomical_asc_longitude) ==
    AngleMinus(astronomical_asc_longitude, horary_asc_longitude)

\* rotation_offset = horary_asc_longitude - astronomical_asc_longitude
rotation_offset(horary_asc_longitude, astronomical_asc_longitude) ==
    AngleMinus(horary_asc_longitude, astronomical_asc_longitude)

\* the single offset is added to every cusp and each is renormalized
rotate_house_cusps(houses, offset) ==
    [house_num \in 1..12 |->
        [houses[house_num] EXCEPT
            !.longitude = normalize_angle(AnglePlus(@, offset))]]

(***************************************************************************)
(* Time finder (app/services/horary.py)                                    *)
(*                                                                         *)
(* Angles here are whole microdegrees.  The Ascendant of a date and place  *)
(* as a function of the second of the day, which the source derives from   *)
(* the sidereal time, is supplied as a profile [start, rate_am, rate_pm]:  *)
(* the Ascendant at 00:00:00 and its advance per second before and after   *)
(* noon.  An Optional[int] is None or [seconds |-> n]; the string          *)
(* "HH:MM:SS" is held as <<hours, minutes, secs>>.                         *)
(***************************************************************************)
MicroPerTurn == 360 * 1000 * 1000

\* float('inf'): above every angular difference
Infinity == MicroPerTurn

max_iterations == 50

_seconds_to_hms(seconds) ==
    <<seconds \div 3600, (seconds % 3600) \div 60, seconds % 60>>

_get_ascendant_at_time(profile, hour, minute, second) ==
    LET t == hour * 3600 + minute * 60 + second
        noon == 12 * 3600
        advance == IF t <= noon THEN profile.rate_am * t
                   ELSE profile.rate_am * noon + profile.rate_pm * (t - noon)
    IN  (profile.start + advance) % MicroPerTurn

_angular_difference(a, b) ==
    LET diff == IF a >= b THEN a - b ELSE b - a
    IN  IF diff > MicroPerTurn \div 2 THEN MicroPerTurn - diff ELSE diff

_is_between_angles(target, start, end) ==
    IF start <= end THEN start <= target /\ target <= end
    ELSE target >= start \/ target <= end

\* the result of the search with what it evaluated on the way: passes holds,
\* for each pass of the loop, the bracket it began with and the way it ended;
\* low and high are the bracket the search stopped with
SearchResult(ret, best_match, best_diff, seen, iterations, passes, low, high) ==
    [ret |-> ret, best_match |-> best_match, best_diff |-> best_diff,
     seen |-> seen, iterations |-> iterations, passes |-> passes,
     low |-> low, high |-> high]

\* any best match is returned, however far it is from the target
close_enough_any(best_match, best_diff) == best_match # None

\* best_match is not None and best_diff < 0.5
close_enough(best_match, best_diff) == best_match # None /\ best_diff < 500000

\* the loop goes on while the bracket is wider than twice the precision
loop_continues_loose(low, high, precision, iterations) ==
    high - low > 2 * precision /\ iterations < max_iterations

\* while high - low > precision and iterations < max_iterations
loop_continues(low, high, precision, iterations) ==
    high - low > precision /\ iterations < max_iterations

\* the bracket around the best match as wide as the one it replaces
refine_window_full_width(low, high, best_match) ==
    LET quarter == (high - low) \div 4
    IN  IF best_match = low THEN <<low, low + quarter * 4>>
        ELSE IF best_match = high THEN <<high - quarter * 4, high>>
        ELSE <<low, high>>

\* the else branch: refine around the best match
refine_window(low, high, best_match) ==
    LET quarter == (high - low) \div 4
        Max(a, b) == IF a >= b THEN a ELSE b
        Min(a, b) == IF a <= b THEN a ELSE b
    IN  IF best_match = low THEN <<low, low + quarter * 2>>
        ELSE IF best_match = high THEN <<high - quarter * 2, high>>
        ELSE <<Max(0, best_match - quarter), Min(86399, best_match + quarter)>>

\* the while loop of _binary_search_ascendant and the test that follows it
RECURSIVE search_loop(_, _, _, _, _, _, _, _, _, _)
search_loop(target, profile, low, high, precision, iterations, best_match, best_diff, seen, passes) ==
    IF ~loop_continues(low, high, precision, iterations)
    THEN SearchResult(IF close_enough(best_match, best_diff) THEN best_match ELSE None,
                      best_match, best_diff, seen, iterations, passes, low, high)
    ELSE LET mid == (low + high) \div 2
             low_time == _seconds_to_hms(low)
             high_time == _seconds_to_hms(high)
             mid_time == _seconds_to_hms(mid)
             asc_low == _get_ascendant_at_time(profile, low_time[1], low_time[2], low_time[3])
             asc_high == _get_ascendant_at_time(profile, high_time[1], high_time[2],
                                                high_time[3])
             asc_mid == _get_ascendant_at_time(profile, mid_time[1], mid_time[2], mid_time[3])
             diff_low == _angular_difference(target, asc_low)
             diff_high == _angular_difference(target, asc_high)
             diff_mid == _angular_difference(target, asc_mid)
             \* <<best_diff, best_match>> after each of the three updates
             b1 == IF diff_low < best_diff THEN <<diff_low, [seconds |-> low]>>
                   ELSE <<best_diff, best_match>>
             b2 == IF diff_mid < b1[1] THEN <<diff_mid, [seconds |-> mid]>> ELSE b1
             b3 == IF diff_high < b2[1] THEN <<diff_high, [seconds |-> high]>> ELSE b2
             seen3 == seen \cup {low, mid, high}
             branch == IF b3[1] < 10000 THEN "return"
                       ELSE IF _is_between_angles(target, asc_low, asc_mid) THEN "first_half"
                       ELSE IF _is_between_angles(target, asc_mid, asc_high)
                       THEN "second_half"
                       ELSE "refine"
             \* <<low, high>> of the next iteration
             window == CASE branch = "first_half" -> <<low, mid>>
                         [] branch = "second_half" -> <<mid, high>>
                         [] branch = "refine" -> refine_window(low, high, b3[2].seconds)
                         [] OTHER -> <<low, high>>
             passes3 == Append(passes, [low |-> low, high |-> high, branch |-> branch])
         IN  \* if best_diff < 0.01: return best_match
             IF branch = "return"
             THEN SearchResult(b3[2], b3[2], b3[1], seen3, iterations + 1, passes3, low, high)
             ELSE search_loop(target, profile, window[1], window[2], precision,
                              iterations + 1, b3[2], b3[1], seen3, passes3)

_binary_search_ascendant(target, profile, low, high, precision) ==
    search_loop(target, profile, low, high, precision, 0, None, Infinity, {}, << >>)

find_time_for_ascendant(target_longitude, profile, precision_seconds) ==
    LET \* normalize_longitude(target_longitude)
        target == target_longitude % MicroPerTurn
        result == _binary_search_ascendant(target, profile, 0, 86399, precision_seconds)
    IN  [ret |-> IF result.ret # None
                 THEN [time |-> _seconds_to_hms(result.ret.seconds)]
                 ELSE None,
         search |-> result]

(***************************************************************************)
(* Chart endpoints (app/api/routes.py) and get_full_dasha_info             *)
(*                                                                         *)
(* A birth instant is day 0 of the dasha dates; datetime_range gives the   *)
(* days from it down to datetime.min and up to datetime.max, the limits    *)
(* beyond which datetime arithmetic raises OverflowError.                  *)
(***************************************************************************)
IsLeapYear(year) == year % 4 = 0 /\ (year % 100 # 0 \/ year % 400 = 0)

DaysInMonth(year, month) ==
    IF month = 2 THEN (IF IsLeapYear(year) THEN 29 ELSE 28)
    ELSE IF month \in {4, 6, 9, 11} THEN 30 ELSE 31

\* whole days from 0001-01-01 and to 9999-12-31 of a calendar date
datetime_range(year, month, day) ==
    LET ordinal(y, m, d) == date_to_julian_day(y, m, d, 0, 0, 0, 0).half \div 2
    IN  [min |-> ordinal(1, 1, 1) - ordinal(year, month, day),
         max |-> ordinal(9999, 12, 31) - ordinal(year, month, day)]

\* datetime(year, month, day, hour, minute, second): ValueError for a date the
\* calendar does not have
datetime(year, month, day, clock) ==
    IF year < 1 \/ year > 9999 THEN Raise("ValueError")
    ELSE IF day > DaysInMonth(year, month) THEN Raise("ValueError")
    ELSE [day |-> 0, tick |-> ((clock[1] * 3600 + clock[2] * 60 + clock[3]) * 500) \div 27]

\* strftime("%Y-%m-%d"): the date without the time of day
strftime(date) == date.day

\* lines 464-528 of get_full_dasha_info: the periods and the current dasha
\* formatted for the response
format_dasha_info(balance_info, mahadashas, current) ==
    LET fmt(p) == [planet |-> p.planet, start_date |-> strftime(p.start_date),
                   end_date |-> strftime(p.end_date)]
        full(p) == [planet |-> p.planet, start_date |-> strftime(p.start_date),
                    end_date |-> strftime(p.end_date),
                    duration_years |-> p.duration_years]
        with_antardasha(md) ==
            TheOne({ [planet |-> md.planet, start_date |-> strftime(md.start_date),
                      end_date |-> strftime(md.end_date),
                      duration_years |-> md.duration_years,
                      antardasha |-> [j \in 1..Len(ads) |-> full(ads[j])]] :
                        ads \in {calculate_antardasha_periods(md)} })
        md == current.current_mahadasha
        ad == current.current_antardasha
        pad == current.current_pratyantardasha
        sd == current.current_sookshma_dasha
        current_dasha_info ==
            IF md = None THEN None
            ELSE IF ad = None
            THEN [mahadasha |-> fmt(md), dasha_string |-> current.dasha_string]
            ELSE IF pad = None
            THEN [mahadasha |-> fmt(md), dasha_string |-> current.dasha_string,
                  antardasha |-> fmt(ad)]
            ELSE IF sd = None
            THEN [mahadasha |-> fmt(md), dasha_string |-> current.dasha_string,
                  antardasha |-> fmt(ad), pratyantardasha |-> fmt(pad)]
            ELSE [mahadasha |-> fmt(md), dasha_string |-> current.dasha_string,
                  antardasha |-> fmt(ad), pratyantardasha |-> fmt(pad),
                  sookshma_dasha |-> fmt(sd)]
    IN  [birth_dasha_lord |-> balance_info.birth_dasha_lord,
         birth_dasha_balance_years |-> balance_info.balance_years,
         birth_nakshatra |-> balance_info.nakshatra_name,
         mahadasha_periods |-> [i \in 1..Len(mahadashas) |-> with_antardasha(mahadashas[i])],
         current_dasha |-> current_dasha_info]

\* the dasha section; a date computed outside [datetime.min, datetime.max]
\* raises OverflowError (in calculate_dasha_balance, or in the Mahadasha loop
\* of calculate_mahadasha_periods, run for 9 and then for 18 periods)
get_full_dasha_info(moon_longitude, birth_datetime, now, range) ==
    LET overflows(date) == date.day < range.min \/ date.day > range.max
    IN  TheOne({ IF \/ overflows(balance_info.dasha_start_date)
                    \/ overflows(balance_info.dasha_end_date)
                    \/ \E i \in 1..Len(all_mahadashas) :
                          overflows(all_mahadashas[i].end_date)
                 THEN Raise("OverflowError")
                 ELSE TheOne({ format_dasha_info(balance_info,
                                                 SubSeq(all_mahadashas, 1, 9), current) :
                                 current \in {find_current_dasha(moon_longitude,
                                                                 birth_datetime, now)} }) :
                   balance_info \in {calculate_dasha_balance(moon_longitude, birth_datetime)},
                   all_mahadashas \in {calculate_mahadasha_periods(moon_longitude,
                                                                   birth_datetime, 18)} })

\* for planet in planets: if planet["name"] == "Moon": ... break; the planet
\* found stands for its longitude, None for none found
RECURSIVE find_moon(_)
find_moon(planets) ==
    IF planets = << >> THEN None
    ELSE IF Head(planets).name = "Moon" THEN Head(planets)
    ELSE find_moon(Tail(planets))

\* the dasha block with no handler of its own: what it raises leaves it
dasha_block_unhandled(response, dasha_data) ==
    IF Raised(dasha_data) THEN dasha_data
    ELSE [response EXCEPT !.dasha = dasha_data]

\* try: ... return response_dict / except Exception: logging.warning(...),
\* then return response
dasha_block(response, dasha_data) ==
    IF Raised(dasha_data) THEN response
    ELSE [response EXCEPT !.dasha = dasha_data]

\* the end of calculate_chart and of calculate_horary_endpoint, from the built
\* response on; an exception that reaches the outer handler becomes HTTP 500
chart_endpoint_tail(response, year, month, day, clock, now) ==
    LET moon == find_moon(response.planets)
        attempt == TheOne({ IF Raised(birth_datetime) THEN birth_datetime
                            ELSE get_full_dasha_info(moon.longitude, birth_datetime, now,
                                                     datetime_range(year, month, day)) :
                              birth_datetime \in {datetime(year, month, day, clock)} })
        outcome(dasha_data, result) ==
            [dasha_error |-> IF Raised(dasha_data) THEN dasha_data ELSE None,
             ret |-> IF Raised(result) THEN Raise("HTTPException 500") ELSE result]
    IN  IF moon = None THEN [dasha_error |-> None, ret |-> response]
        ELSE TheOne({ TheOne({ outcome(dasha_data, result) :
                                 result \in {dasha_block(response, dasha_data)} }) :
                        dasha_data \in {attempt} })

(***************************************************************************)
(* State                                                                   *)
(***************************************************************************)
VARIABLES
    HORARY_TABLE,   \* module global of horary.py: horary number -> start longitude
    HORARY_INFO,    \* module global of horary.py: horary number -> record
    builds,         \* how many times the construction loop of generate_horary_table ran
    last,           \* the call just made and what it returned ([op |-> "idle"] between calls)
    threads         \* per concurrent caller: where it stands inside a horary call

vars == <<HORARY_TABLE, HORARY_INFO, builds, last, threads>>

\* the highest horary number accepted by get_horary_degree and get_horary_info
MaxHoraryNumber == 249

\* how far outside 1..249 the horary numbers tried reach
MaxOutOfRange == 2

\* number of concurrent callers
NumThreads == 2

\* the Moon positions tried inside one nakshatra are its first point and
\* MoonSteps further points up to its last unit
MoonSteps == 1

Threads == 1..NumThreads

Idle == [op |-> "idle"]

(***************************************************************************)
(* Inputs                                                                  *)
(***************************************************************************)
\* the end of the j-th sub of a star whose lord has index start_index: the
\* sum of the spans of the first j subs
RECURSIVE SubBoundaryOffset(_, _)
SubBoundaryOffset(start_index, j) ==
    IF j = 0 THEN 0
    ELSE SubBoundaryOffset(start_index, j - 1)
         + part_span(OrderAt((start_index + j - 1) % 9), NAKSHATRA_SPAN)

\* the absolute angle of that boundary in nakshatra k (0-based)
SubBoundary(k, j) ==
    k * NAKSHATRA_SPAN + SubBoundaryOffset(OrderIndex(NAKSHATRAS[k + 1].lord), j)

\* every sub boundary of the zodiac and the angles up to MaxOffset units
\* either side of it, 0 and 360 degrees included
GridUnits ==
    { SubBoundary(k, j) + o : k \in 0..26, j \in 0..9, o \in (0 - MaxOffset)..MaxOffset }

\* angles that are also tried whole turns away
TurnBase == {0, 1, NAKSHATRA_SPAN, 359 * DegUnit + (DegUnit - 1)}

LongitudeInputs ==
    { Longitude(u) : u \in GridUnits }
    \cup { [deg |-> u \div DegUnit + 360 * t, frac |-> u % DegUnit] :
              u \in TurnBase, t \in (0 - MaxTurns)..MaxTurns }

\* the end of the i-th sub-sub of a sub of span sub_span whose lord has index
\* start_index: the sum of the spans of the first i sub-subs
RECURSIVE SubSubBoundaryOffset(_, _, _)
SubSubBoundaryOffset(start_index, sub_span, i) ==
    IF i = 0 THEN 0
    ELSE SubSubBoundaryOffset(start_index, sub_span, i - 1)
         + part_span(OrderAt((start_index + i - 1) % 9), sub_span)

\* the absolute angle of that boundary in sub j (0-based) of nakshatra k
SubSubBoundary(k, j, i) ==
    SubBoundary(k, j)
    + SubSubBoundaryOffset((OrderIndex(NAKSHATRAS[k + 1].lord) + j) % 9,
                           SubBoundary(k, j + 1) - SubBoundary(k, j), i)

\* every sub-sub boundary of the zodiac and the angles up to MaxOffset units
\* either side of it
SubSubInputs ==
    { Longitude(SubSubBoundary(k, j, i) + o) :
          k \in 0..26, j \in 0..8, i \in 0..9, o \in (0 - MaxOffset)..MaxOffset }

HoraryNumbers == (1 - MaxOutOfRange)..(MaxHoraryNumber + MaxOutOfRange)

ConcNumbers == {0, 1, MaxHoraryNumber, MaxHoraryNumber + 1}

\* Moon longitudes in [0, 360): MoonSteps + 1 positions in each of two nakshatras
MoonInputs ==
    { k * NAKSHATRA_SPAN + (s * (NAKSHATRA_SPAN - 1)) \div MoonSteps :
          k \in {0, 13}, s \in 0..MoonSteps }

\* the reference instant: noon of day 0 (every result is the same for any
\* other instant, shifted by the difference)
BirthInputs == { [day |-> 0, tick |-> TicksPerDay \div 2] }

\* query instants for one chart: around the reference instant, the ends of the
\* first, second and last Mahadasha, of every Antardasha of the second Mahadasha,
\* and of the first and last Pratyantardasha and Sookshma below its last Antardasha
QueryInputs(moon_longitude, birth_datetime) ==
    LET mds == calculate_mahadasha_periods(moon_longitude, birth_datetime, 18)
        ads == calculate_antardasha_periods(mds[2])
        pads == calculate_pratyantardasha_periods(ads[9])
        sds == calculate_sookshma_dasha_periods(pads[9])
    IN  {AddTicks(birth_datetime, 0 - 1), birth_datetime,
         AddTicks(mds[18].end_date, 0 - 1)}
        \cup { mds[i].end_date : i \in {1, 2, 18} }
        \cup { ads[i].end_date : i \in 1..9 }
        \cup { pads[i].end_date : i \in {1, 9} }
        \cup { sds[i].end_date : i \in {1, 9} }

\* Moon longitudes for the balance: on every nakshatra boundary, one unit past
\* it, in the middle of the nakshatra and one unit before its end, and 360.0,
\* which round(sidereal_longitude, 6) gives for a Moon within half a
\* micro-degree of the end of the zodiac
BalanceInputs ==
    { k * NAKSHATRA_SPAN + d :
          k \in 0..26, d \in {0, 1, NAKSHATRA_SPAN \div 2, NAKSHATRA_SPAN - 1} }
    \cup {27 * NAKSHATRA_SPAN}

\* calendar dates: the year of the cutover, a century leap year, a century
\* common year, and a recent leap year
CalendarYears == {1582, 1600, 1900, 2024}

\* times of day <<hour, minute, second>>
ClockInputs == { <<0, 0, 0>>, <<6, 30, 15>>, <<12, 0, 0>>, <<23, 59, 59>> }

\* Julian Days on the tenths of a year, from before the base year to the present
AyanamsaYears == {1899, 1900, 1901, 2000, 2024}

JulianDayInputs ==
    { [half |-> date_to_julian_day(year, 1, 1, 0, 0, 0, 0).half,
       sec |-> k * (IF IsLeapYear(year) THEN 366 ELSE 365) * (SecondsPerDay \div 10)] :
          year \in AyanamsaYears, k \in 0..9 }

\* mode names as callers write them; an unknown name falls to the default
AyanamsaTypeInputs == {"manual", "Manual", "MANUAL", "old", "OLD", "new", "New", "lahiri"}

\* caller-supplied values: absent, zero, 23deg51' and a negative angle
ManualValueInputs == {None, Arc(0, 0), Arc(23 * 3600 + 51 * 60, 0), Arc(0 - 3600, 0)}

\* tropical Ascendants and Midheavens of an instant, a whole number of thirds
\* of a fine unit apart so that the trisected arcs are exact
TropicalAscInputs ==
    { Angle(0, 0), Angle(23, 3 * 1234567), Angle(95, 0), Angle(187, 3 * 7654321),
      Angle(359, FineUnit - 3) }

TropicalMcInputs == { Angle(271, 3 * 1111111), Angle(95, 0), Angle(3, 3 * 8999999) }

\* ayanamsa values off the microdegree grid, so that round(x, 6) acts
AyanamsaAngleInputs == { Angle(23, 22222222), Angle(24, 5000011), Angle(0, 0) }

\* horary numbers whose start is the first point, a sub boundary off the
\* microdegree grid, a sign boundary and the start of the last entry
RotationNumbers == {1, 2, 3, 24, 125, MaxHoraryNumber}

\* Ascendant profiles of a day: even advance through the whole zodiac, a fast
\* morning and slow afternoon, a slow advance through part of the zodiac
\* only, and an advance of several turns that takes the same value at 11:59:59
\* and 23:59:59 (the only way the best of three probes is the middle one),
\* each from three Ascendants at midnight
AscendantProfiles ==
    { [start |-> start, rate_am |-> rates[1], rate_pm |-> rates[2]] :
          start \in {0, 235436600, 359900000},
          rates \in { <<4166, 4166>>, <<5500, 2833>>, <<2000, 2000>>, <<22733, 8333>> } }

\* seconds of the day whose Ascendant is asked for
KnownSeconds ==
    {0, 1, 97, 970, 2037, 21600, 43199, 43200, 43201, 60000, 80000, 86398, 86399}

\* targets that are not taken from the profile
FreeTargets == {0, 90 * 1000 * 1000, 200 * 1000 * 1000, MicroPerTurn + 5}

\* birth years at both ends of the datetime range and inside it
ChartYears == {1, 2024, 9800, 9990}

\* month and day as the request validator lets them through (day <= 31)
ChartDates == { <<2, 29>>, <<2, 30>>, <<6, 15>> }

\* hour, minute, second of the chart (a whole number of ticks)
ChartClocks == { <<0, 0, 0>>, <<12, 0, 0>> }

\* datetime.now(), in days from the birth instant
NowInputs == {0 - 1000, 1000, 50000}

\* the planets of a built response: Sun first, then the Moon
ChartPlanets(moon_longitude) ==
    << [name |-> "Sun", longitude |-> 0], [name |-> "Moon", longitude |-> moon_longitude] >>

(***************************************************************************)
(* Sequential calls                                                        *)
(***************************************************************************)
Init ==
    /\ HORARY_TABLE = << >>
    /\ HORARY_INFO = << >>
    /\ builds = 0
    /\ last = Idle
    /\ threads = [t \in Threads |-> [pc |-> "idle"]]

\* the caller takes the result and the next call can be made
Return ==
    /\ last.op # "idle"
    /\ last' = Idle
    /\ UNCHANGED <<HORARY_TABLE, HORARY_INFO, builds, threads>>

Call_get_sign ==
    /\ last.op = "idle"
    /\ \E longitude \in LongitudeInputs :
          last' = [op |-> "get_sign", longitude |-> longitude, ret |-> get_sign(longitude)]
    /\ UNCHANGED <<HORARY_TABLE, HORARY_INFO, builds, threads>>

Call_get_star ==
    /\ last.op = "idle"
    /\ \E longitude \in LongitudeInputs :
          last' = [op |-> "get_star", longitude |-> longitude, ret |-> get_star(longitude)]
    /\ UNCHANGED <<HORARY_TABLE, HORARY_INFO, builds, threads>>

Call_get_sub_lord ==
    /\ last.op = "idle"
    /\ \E longitude \in LongitudeInputs :
          last' = [op |-> "get_sub_lord", longitude |-> longitude,
                   ret |-> get_sub_lord(longitude)]
    /\ UNCHANGED <<HORARY_TABLE, HORARY_INFO, builds, threads>>

Call_get_sub_sub_lord ==
    /\ last.op = "idle"
    /\ \E longitude \in LongitudeInputs \cup SubSubInputs :
          last' = [op |-> "get_sub_sub_lord", longitude |-> longitude,
                   ret |-> get_sub_sub_lord(longitude)]
    /\ UNCHANGED <<HORARY_TABLE, HORARY_INFO, builds, threads>>

Call_get_sign_star_sub ==
    /\ last.op = "idle"
    /\ \E longitude \in LongitudeInputs :
          last' = [op |-> "get_sign_star_sub", longitude |-> longitude,
                   ret |-> get_sign_star_sub(longitude)]
    /\ UNCHANGED <<HORARY_TABLE, HORARY_INFO, builds, threads>>

\* generate_horary_table run to completion on the globals (table, info):
\* the globals afterwards and whether the construction loop ran
generate_horary_table(table, info) ==
    IF table # << >>
    THEN [table |-> table, info |-> info, built |-> FALSE]
    ELSE [table |-> built_horary_table, info |-> built_horary_info, built |-> TRUE]

\* dict[key]: KeyError when the key is absent
DictGet(dict, key) == IF key \in DOMAIN dict THEN dict[key] ELSE Raise("KeyError")

Call_generate_horary_table ==
    /\ last.op = "idle"
    /\ LET g == generate_horary_table(HORARY_TABLE, HORARY_INFO)
       IN  /\ HORARY_TABLE' = g.table
           /\ HORARY_INFO' = g.info
           /\ builds' = builds + (IF g.built THEN 1 ELSE 0)
           /\ last' = [op |-> "generate_horary_table", entries |-> Len(g.table)]
    /\ UNCHANGED threads

\* the range test of get_horary_degree / get_horary_info with `>` and `<` swapped
\* for `>=` and `<=`
out_of_range_strict(horary_number) ==
    horary_number <= 1 \/ horary_number >= MaxHoraryNumber

\* horary_number < 1 or horary_number > 249
out_of_range(horary_number) ==
    horary_number < 1 \/ horary_number > MaxHoraryNumber

Call_get_horary_degree ==
    /\ last.op = "idle"
    /\ \E horary_number \in HoraryNumbers :
          IF out_of_range(horary_number)
          THEN /\ last' = [op |-> "get_horary_degree", horary_number |-> horary_number,
                           ret |-> Raise("ValueError")]
               /\ UNCHANGED <<HORARY_TABLE, HORARY_INFO, builds>>
          ELSE LET g == IF HORARY_TABLE = << >>
                        THEN generate_horary_table(HORARY_TABLE, HORARY_INFO)
                        ELSE [table |-> HORARY_TABLE, info |-> HORARY_INFO, built |-> FALSE]
               IN  /\ HORARY_TABLE' = g.table
                   /\ HORARY_INFO' = g.info
                   /\ builds' = builds + (IF g.built THEN 1 ELSE 0)
                   /\ last' = [op |-> "get_horary_degree", horary_number |-> horary_number,
                               ret |-> [value |-> DictGet(g.table, horary_number)]]
    /\ UNCHANGED threads

Call_get_horary_info ==
    /\ last.op = "idle"
    /\ \E horary_number \in HoraryNumbers :
          IF out_of_range(horary_number)
          THEN /\ last' = [op |-> "get_horary_info", horary_number |-> horary_number,
                           ret |-> Raise("ValueError")]
               /\ UNCHANGED <<HORARY_TABLE, HORARY_INFO, builds>>
          ELSE LET g == IF HORARY_INFO = << >>
                        THEN generate_horary_table(HORARY_TABLE, HORARY_INFO)
                        ELSE [table |-> HORARY_TABLE, info |-> HORARY_INFO, built |-> FALSE]
               IN  /\ HORARY_TABLE' = g.table
                   /\ HORARY_INFO' = g.info
                   /\ builds' = builds + (IF g.built THEN 1 ELSE 0)
                   /\ last' = [op |-> "get_horary_info", horary_number |-> horary_number,
                               ret |-> DictGet(g.info, horary_number)]
    /\ UNCHANGED threads

Call_calculate_mahadasha_periods ==
    /\ last.op = "idle"
    /\ \E moon_longitude \in MoonInputs, birth_datetime \in BirthInputs,
          num_periods \in {9, 18} :
          last' = [op |-> "calculate_mahadasha_periods",
                   moon_longitude |-> moon_longitude,
                   birth_datetime |-> birth_datetime,
                   ret |-> calculate_mahadasha_periods(moon_longitude, birth_datetime,
                                                       num_periods)]
    /\ UNCHANGED <<HORARY_TABLE, HORARY_INFO, builds, threads>>

\* a Mahadasha just computed is subdivided
Call_calculate_antardasha_periods ==
    /\ last.op = "calculate_mahadasha_periods"
    /\ \E i \in 1..Len(last.ret) :
          last' = [op |-> "calculate_antardasha_periods", parent |-> last.ret[i],
                   ret |-> calculate_antardasha_periods(last.ret[i])]
    /\ UNCHANGED <<HORARY_TABLE, HORARY_INFO, builds, threads>>

\* an Antardasha just computed is subdivided
Call_calculate_pratyantardasha_periods ==
    /\ last.op = "calculate_antardasha_periods"
    /\ \E i \in 1..Len(last.ret) :
          last' = [op |-> "calculate_pratyantardasha_periods", parent |-> last.ret[i],
                   ret |-> calculate_pratyantardasha_periods(last.ret[i])]
    /\ UNCHANGED <<HORARY_TABLE, HORARY_INFO, builds, threads>>

\* a Pratyantardasha just computed is subdivided
Call_calculate_sookshma_dasha_periods ==
    /\ last.op = "calculate_pratyantardasha_periods"
    /\ \E i \in 1..Len(last.ret) :
          last' = [op |-> "calculate_sookshma_dasha_periods", parent |-> last.ret[i],
                   ret |-> calculate_sookshma_dasha_periods(last.ret[i])]
    /\ UNCHANGED <<HORARY_TABLE, HORARY_INFO, builds, threads>>

\* the running periods are looked up at a query instant
Call_find_current_dasha ==
    /\ last.op = "idle"
    /\ \E moon_longitude \in MoonInputs, birth_datetime \in BirthInputs :
          \E query_datetime \in QueryInputs(moon_longitude, birth_datetime) :
             last' = [op |-> "find_current_dasha",
                      moon_longitude |-> moon_longitude,
                      birth_datetime |-> birth_datetime,
                      query_datetime |-> query_datetime,
                      ret |-> find_current_dasha(moon_longitude, birth_datetime,
                                                 query_datetime)]
    /\ UNCHANGED <<HORARY_TABLE, HORARY_INFO, builds, threads>>

Call_calculate_dasha_balance ==
    /\ last.op = "idle"
    /\ \E moon_longitude \in BalanceInputs, birth_datetime \in BirthInputs :
          last' = [op |-> "calculate_dasha_balance",
                   moon_longitude |-> moon_longitude,
                   birth_datetime |-> birth_datetime,
                   ret |-> calculate_dasha_balance(moon_longitude, birth_datetime)]
    /\ UNCHANGED <<HORARY_TABLE, HORARY_INFO, builds, threads>>

\* the Mahadashas of a chart whose Moon is one of the balance inputs
Call_calculate_mahadasha_periods_from_balance ==
    /\ last.op = "idle"
    /\ \E moon_longitude \in BalanceInputs, birth_datetime \in BirthInputs :
          last' = [op |-> "calculate_mahadasha_periods",
                   moon_longitude |-> moon_longitude,
                   birth_datetime |-> birth_datetime,
                   ret |-> calculate_mahadasha_periods(moon_longitude, birth_datetime, 9)]
    /\ UNCHANGED <<HORARY_TABLE, HORARY_INFO, builds, threads>>

Call_date_to_julian_day ==
    /\ last.op = "idle"
    /\ \E year \in CalendarYears, month \in 1..12, clock \in ClockInputs :
          \E day \in 1..DaysInMonth(year, month) :
             last' = [op |-> "date_to_julian_day",
                      year |-> year, month |-> month, day |-> day,
                      hour |-> clock[1], minute |-> clock[2], second |-> clock[3],
                      ret |-> date_to_julian_day(year, month, day,
                                                 clock[1], clock[2], clock[3], 0)]
    /\ UNCHANGED <<HORARY_TABLE, HORARY_INFO, builds, threads>>

\* the Julian Day just computed is converted back
Call_julian_day_to_date ==
    /\ last.op = "date_to_julian_day"
    /\ last' = [last EXCEPT !.op = "julian_day_to_date",
                            !.ret = julian_day_to_date(last.ret)]
    /\ UNCHANGED <<HORARY_TABLE, HORARY_INFO, builds, threads>>

Call_calculate_kp_new_ayanamsa ==
    /\ last.op = "idle"
    /\ \E jd \in JulianDayInputs :
          last' = [op |-> "calculate_kp_new_ayanamsa", jd |-> jd,
                   ret |-> calculate_kp_new_ayanamsa(jd)]
    /\ UNCHANGED <<HORARY_TABLE, HORARY_INFO, builds, threads>>

Call_calculate_kp_old_ayanamsa ==
    /\ last.op = "idle"
    /\ \E jd \in JulianDayInputs :
          last' = [op |-> "calculate_kp_old_ayanamsa", jd |-> jd,
                   ret |-> calculate_kp_old_ayanamsa(jd)]
    /\ UNCHANGED <<HORARY_TABLE, HORARY_INFO, builds, threads>>

Call_calculate_ayanamsa ==
    /\ last.op = "idle"
    /\ \E jd \in JulianDayInputs, ayanamsa_type \in AyanamsaTypeInputs,
          manual_value \in ManualValueInputs :
          last' = [op |-> "calculate_ayanamsa", jd |-> jd,
                   ayanamsa_type |-> ayanamsa_type, manual_value |-> manual_value,
                   ret |-> calculate_ayanamsa(jd, ayanamsa_type, manual_value)]
    /\ UNCHANGED <<HORARY_TABLE, HORARY_INFO, builds, threads>>

\* calculate_horary_endpoint from the house cusps to their rotation
Call_rotate_house_cusps ==
    /\ last.op = "idle"
    /\ \E tropical_asc \in TropicalAscInputs, tropical_mc \in TropicalMcInputs,
          ayanamsa \in AyanamsaAngleInputs, horary_number \in RotationNumbers :
          LET houses == calculate_house_cusps(
                            calculate_placidus_cusps(tropical_asc, tropical_mc), ayanamsa)
              g == IF HORARY_INFO = << >>
                   THEN generate_horary_table(HORARY_TABLE, HORARY_INFO)
                   ELSE [table |-> HORARY_TABLE, info |-> HORARY_INFO, built |-> FALSE]
              horary_info == DictGet(g.info, horary_number)
              horary_asc_longitude == AngleOfUnits(horary_info.start_longitude)
              astronomical_asc == calculate_ascendant(tropical_asc, ayanamsa)
              offset == rotation_offset(horary_asc_longitude, astronomical_asc.longitude)
          IN  /\ HORARY_TABLE' = g.table
              /\ HORARY_INFO' = g.info
              /\ builds' = builds + (IF g.built THEN 1 ELSE 0)
              /\ last' = [op |-> "rotate_house_cusps",
                          tropical_asc |-> tropical_asc,
                          tropical_mc |-> tropical_mc,
                          tropical_cusps |-> calculate_placidus_cusps(tropical_asc, tropical_mc),
                          horary_asc_longitude |-> horary_asc_longitude,
                          astronomical_asc_longitude |-> astronomical_asc.longitude,
                          rotation_offset |-> offset,
                          cusps |-> houses,
                          ret |-> rotate_house_cusps(houses, offset)]
    /\ UNCHANGED threads

\* the target is the Ascendant of a known second of the day (from_second holds
\* it) or a free angle (from_second is empty)
Call_find_time_for_ascendant ==
    /\ last.op = "idle"
    /\ \E profile \in AscendantProfiles :
          \/ \E t \in KnownSeconds :
                LET hms == _seconds_to_hms(t)
                    target == _get_ascendant_at_time(profile, hms[1], hms[2], hms[3])
                    found == find_time_for_ascendant(target, profile, 1)
                IN  last' = [op |-> "find_time_for_ascendant", profile |-> profile,
                             target_longitude |-> target, from_second |-> <<t>>,
                             ret |-> found.ret, search |-> found.search]
          \/ \E target \in FreeTargets :
                LET found == find_time_for_ascendant(target, profile, 1)
                IN  last' = [op |-> "find_time_for_ascendant", profile |-> profile,
                             target_longitude |-> target, from_second |-> << >>,
                             ret |-> found.ret, search |-> found.search]
    /\ UNCHANGED <<HORARY_TABLE, HORARY_INFO, builds, threads>>

\* the horary cache used by one caller at a time
\* the chart is built, then the dasha section is added
Call_calculate_chart ==
    /\ last.op = "idle"
    /\ \E year \in ChartYears, date \in ChartDates, moon_longitude \in MoonInputs,
          clock \in ChartClocks, now \in NowInputs :
          \E response \in {[julian_day |-> date_to_julian_day(year, date[1], date[2],
                                                              clock[1], clock[2], 0, 0),
                             planets |-> ChartPlanets(moon_longitude),
                             house_system |-> "Placidus",
                             dasha |-> None]} :
             \E tail \in {chart_endpoint_tail(response, year, date[1], date[2],
                                               <<clock[1], clock[2], 0>>,
                                               [day |-> now, tick |-> 0])} :
                last' = [op |-> "calculate_chart", response |-> response,
                         dasha_error |-> tail.dasha_error, ret |-> tail.ret]
    /\ UNCHANGED <<HORARY_TABLE, HORARY_INFO, builds, threads>>

\* the horary chart is built, then the dasha section is added
Call_calculate_horary_endpoint ==
    /\ last.op = "idle"
    /\ \E year \in ChartYears, date \in ChartDates, moon_longitude \in MoonInputs,
          clock \in ChartClocks, now \in NowInputs :
          \E response \in {[julian_day |-> date_to_julian_day(year, date[1], date[2],
                                                              clock[1], clock[2], 27, 0),
                             planets |-> ChartPlanets(moon_longitude),
                             house_system |-> "Placidus",
                             dasha |-> None]} :
             \E tail \in {chart_endpoint_tail(response, year, date[1], date[2],
                                               <<clock[1], clock[2], 27>>,
                                               [day |-> now, tick |-> 0])} :
                last' = [op |-> "calculate_horary_endpoint", response |-> response,
                         dasha_error |-> tail.dasha_error, ret |-> tail.ret]
    /\ UNCHANGED <<HORARY_TABLE, HORARY_INFO, builds, threads>>

Next ==
    \/ Return
    \/ Call_generate_horary_table
    \/ Call_get_horary_degree
    \/ Call_get_horary_info

Spec == Init /\ [][Next]_vars

\* the lordship resolver applied to the longitude inputs
NextLordship ==
    \/ Return
    \/ Call_get_sign
    \/ Call_get_star
    \/ Call_get_sub_lord
    \/ Call_get_sub_sub_lord
    \/ Call_get_sign_star_sub

SpecLordship == Init /\ [][NextLordship]_vars

\* the dasha tree descended one level per call
NextDasha ==
    \/ Return
    \/ Call_calculate_mahadasha_periods
    \/ Call_calculate_antardasha_periods
    \/ Call_calculate_pratyantardasha_periods
    \/ Call_calculate_sookshma_dasha_periods
    \/ Call_find_current_dasha

SpecDasha == Init /\ [][NextDasha]_vars

\* the dasha balance taken at the Moon inputs
NextBalance ==
    \/ Return
    \/ Call_calculate_dasha_balance
    \/ Call_calculate_mahadasha_periods_from_balance

SpecBalance == Init /\ [][NextBalance]_vars

\* a calendar date converted to a Julian Day and back
NextJulian ==
    \/ Return
    \/ Call_date_to_julian_day
    \/ Call_julian_day_to_date

SpecJulian == Init /\ [][NextJulian]_vars

\* the ayanamsa computed in its three modes
NextAyanamsa ==
    \/ Return
    \/ Call_calculate_kp_new_ayanamsa
    \/ Call_calculate_kp_old_ayanamsa
    \/ Call_calculate_ayanamsa

SpecAyanamsa == Init /\ [][NextAyanamsa]_vars

\* the horary chart's house cusps rotated onto the horary Ascendant
NextRotation ==
    \/ Return
    \/ Call_rotate_house_cusps

SpecRotation == Init /\ [][NextRotation]_vars

\* the time of day searched for a target Ascendant
NextTimeFinder ==
    \/ Return
    \/ Call_find_time_for_ascendant

SpecTimeFinder == Init /\ [][NextTimeFinder]_vars

\* the chart endpoints
NextChart ==
    \/ Call_calculate_chart
    \/ Call_calculate_horary_endpoint
    \/ Return

SpecChart == Init /\ [][NextChart]_vars

(***************************************************************************)
(* Concurrent callers of the horary cache.  The module holds no lock; a    *)
(* thread can be preempted between any two reads or writes of the globals  *)
(* HORARY_TABLE and HORARY_INFO.  Each action below is one such read or    *)
(* write together with the thread-local work that follows it.              *)
(*   pc "test"        get_horary_degree line 182 / get_horary_info line 201*)
(*   pc "gen_test"    generate_horary_table line 64                        *)
(*   pc "gen_build"   lines 67-131 (locals only)                           *)
(*   pc "store_table" line 133                                             *)
(*   pc "store_info"  line 134                                             *)
(*   pc "read"        line 185 / line 204                                  *)
(***************************************************************************)
ThreadOps == {"generate_horary_table", "get_horary_degree", "get_horary_info"}

\* a thread enters one of the three functions; the getters make their range
\* test at once (it reads no global)
T_Call(t) ==
    /\ threads[t].pc = "idle"
    /\ \E op \in ThreadOps, horary_number \in ConcNumbers :
          threads' = [threads EXCEPT ![t] =
              IF op = "generate_horary_table"
              THEN [pc |-> "gen_test", op |-> op, horary_number |-> 0]
              ELSE IF out_of_range(horary_number)
              THEN [pc |-> "done", op |-> op, horary_number |-> horary_number,
                    ret |-> Raise("ValueError")]
              ELSE [pc |-> "test", op |-> op, horary_number |-> horary_number]]
    /\ UNCHANGED <<HORARY_TABLE, HORARY_INFO, builds, last>>

\* `if not HORARY_TABLE:` in get_horary_degree, `if not HORARY_INFO:` in get_horary_info
T_Test(t) ==
    /\ threads[t].pc = "test"
    /\ LET empty == IF threads[t].op = "get_horary_degree"
                    THEN HORARY_TABLE = << >>
                    ELSE HORARY_INFO = << >>
       IN  threads' = [threads EXCEPT ![t].pc = IF empty THEN "gen_test" ELSE "read"]
    /\ UNCHANGED <<HORARY_TABLE, HORARY_INFO, builds, last>>

\* where generate_horary_table returns to
AfterGenerate(t) ==
    IF threads[t].op = "generate_horary_table"
    THEN [threads[t] EXCEPT !.pc = "done"] @@ [ret |-> [entries |-> Len(HORARY_TABLE)]]
    ELSE [threads[t] EXCEPT !.pc = "read"]

\* `if HORARY_TABLE: return HORARY_TABLE`
T_GenTest(t) ==
    /\ threads[t].pc = "gen_test"
    /\ threads' = [threads EXCEPT ![t] =
          IF HORARY_TABLE # << >> THEN AfterGenerate(t)
          ELSE [threads[t] EXCEPT !.pc = "gen_build"]]
    /\ UNCHANGED <<HORARY_TABLE, HORARY_INFO, builds, last>>

\* the construction loop, on the locals horary_table and horary_info
T_GenBuild(t) ==
    /\ threads[t].pc = "gen_build"
    /\ builds' = builds + 1
    /\ threads' = [threads EXCEPT ![t].pc = "store_table"]
    /\ UNCHANGED <<HORARY_TABLE, HORARY_INFO, last>>

\* HORARY_TABLE = horary_table
T_StoreTable(t) ==
    /\ threads[t].pc = "store_table"
    /\ HORARY_TABLE' = built_horary_table
    /\ threads' = [threads EXCEPT ![t].pc = "store_info"]
    /\ UNCHANGED <<HORARY_INFO, builds, last>>

\* HORARY_INFO = horary_info; return horary_table
T_StoreInfo(t) ==
    /\ threads[t].pc = "store_info"
    /\ HORARY_INFO' = built_horary_info
    /\ threads' = [threads EXCEPT ![t] =
          IF threads[t].op = "generate_horary_table"
          THEN [threads[t] EXCEPT !.pc = "done"]
               @@ [ret |-> [entries |-> Len(built_horary_table)]]
          ELSE [threads[t] EXCEPT !.pc = "read"]]
    /\ UNCHANGED <<HORARY_TABLE, builds, last>>

\* return HORARY_TABLE[horary_number] / return HORARY_INFO[horary_number]
T_Read(t) ==
    /\ threads[t].pc = "read"
    /\ threads' = [threads EXCEPT ![t] =
          [threads[t] EXCEPT !.pc = "done"]
          @@ [ret |-> IF threads[t].op = "get_horary_degree"
                      THEN [value |-> DictGet(HORARY_TABLE, threads[t].horary_number)]
                      ELSE DictGet(HORARY_INFO, threads[t].horary_number)]]
    /\ UNCHANGED <<HORARY_TABLE, HORARY_INFO, builds, last>>

\* the caller takes the result
T_Return(t) ==
    /\ threads[t].pc = "done"
    /\ threads' = [threads EXCEPT ![t] = [pc |-> "idle"]]
    /\ UNCHANGED <<HORARY_TABLE, HORARY_INFO, builds, last>>

NextConc ==
    \E t \in Threads :
        \/ T_Call(t)
        \/ T_Test(t)
        \/ T_GenTest(t)
        \/ T_GenBuild(t)
        \/ T_StoreTable(t)
        \/ T_StoreInfo(t)
        \/ T_Read(t)
        \/ T_Return(t)

SpecConc == Init /\ [][NextConc]_vars

(***************************************************************************)
(* Properties                                                              *)
(***************************************************************************)
\* 30 degrees in units
SignUnits == 30 * DegUnit

\* the (nakshatra, sub) pairs whose interval has a multiple of 30 degrees
\* strictly inside it
Straddlers ==
    { p \in (0..26) \X (0..8) :
        \E m \in 1..11 : /\ SubBoundary(p[1], p[2]) < m * SignUnits
                         /\ m * SignUnits < SubBoundary(p[1], p[2] + 1) }

\* the sign boundaries that are also sub boundaries
CoincidingBoundaries ==
    { m \in 1..11 : \E k \in 0..26, j \in 0..9 : SubBoundary(k, j) = m * SignUnits }

C4_RangeError ==
    [][ last'.op \in {"get_horary_degree", "get_horary_info"} =>
          LET n == last'.horary_number
          IN  IF n < 1 \/ n > 249
              THEN /\ last'.ret = Raise("ValueError")
                   /\ UNCHANGED <<HORARY_TABLE, HORARY_INFO, builds>>
              ELSE /\ ~Raised(last'.ret)
                   /\ n \in DOMAIN HORARY_TABLE' /\ n \in DOMAIN HORARY_INFO'
                   /\ last'.op = "get_horary_degree" =>
                         last'.ret.value = HORARY_INFO'[n].start_longitude
                   /\ last'.op = "get_horary_info" => last'.ret = HORARY_INFO'[n]
                   /\ builds' = builds + (IF HORARY_TABLE = << >> THEN 1 ELSE 0)
                   /\ HORARY_TABLE # << >> =>
                         UNCHANGED <<HORARY_TABLE, HORARY_INFO>> ]_vars

\* get_horary_info(249) has returned the last entry after building the table
C4_Witness ==
    /\ last.op = "get_horary_info"
    /\ last.horary_number = 249
    /\ ~Raised(last.ret)
    /\ last.ret.end_longitude = 360 * DegUnit
    /\ builds = 1

\* C5: the construction loop runs at most once per process, concurrent
\* first accesses included.
C5_BuiltAtMostOnce == builds <= 1

\* the angle in [0, 360) of a caller-supplied longitude, in units
NormUnits(longitude) == (longitude.deg % 360) * DegUnit + longitude.frac

\* the 0-based nakshatra holding a caller-supplied longitude, and the
\* position inside it
StarOf(longitude) == NormUnits(longitude) \div NAKSHATRA_SPAN

PosInStar(longitude) == NormUnits(longitude) % NAKSHATRA_SPAN

\* index in the Vimshottari order of the lord of 0-based nakshatra k
LordIndex(k) == OrderIndex(NAKSHATRAS[k + 1].lord)

SubsPartitionStar(k) ==
    /\ SubBoundaryOffset(LordIndex(k), 0) = 0
    /\ SubBoundaryOffset(LordIndex(k), 9) = NAKSHATRA_SPAN
    /\ \A j \in 0..8 :
          SubBoundaryOffset(LordIndex(k), j) < SubBoundaryOffset(LordIndex(k), j + 1)

\* the 0-based position in the walk of the sub whose half-open interval
\* holds position p of nakshatra k
SubHolding(k, p) ==
    CHOOSE j \in 0..8 : /\ SubBoundaryOffset(LordIndex(k), j) <= p
                        /\ p < SubBoundaryOffset(LordIndex(k), j + 1)

LordshipOps ==
    {"get_sign", "get_star", "get_sub_lord", "get_sub_sub_lord", "get_sign_star_sub"}

\* what each resolver function returns for longitude 0
ResultAtZero(op) ==
    CASE op = "get_sign" -> get_sign(Longitude(0))
      [] op = "get_star" -> get_star(Longitude(0))
      [] op = "get_sub_lord" -> get_sub_lord(Longitude(0))
      [] op = "get_sub_sub_lord" -> get_sub_sub_lord(Longitude(0))
      [] op = "get_sign_star_sub" -> get_sign_star_sub(Longitude(0))

\* C8: no resolver call indexes a table out of range, and for a longitude
\* that is a whole number of turns (360, 720, -360, ...) each function
\* returns what it returns for 0; the nakshatra is the first (index 1 in the
\* table's own numbering, list index 0), the sign Aries.
C8_WholeTurnsResolveAsZero ==
    last.op \in LordshipOps =>
        /\ ~Raised(last.ret)
        /\ (last.longitude.frac = 0 /\ last.longitude.deg % 360 = 0) =>
              /\ last.ret = ResultAtZero(last.op)
              /\ last.op = "get_sign" => last.ret.index = 1 /\ last.ret.position_in_sign = 0
              /\ last.op = "get_star" =>
                    /\ last.ret.index = 1
                    /\ last.ret.position_in_star = 0
                    /\ last.ret.pada = 1
              /\ last.op = "get_sub_lord" => last.ret.position_in_sub = 0
              /\ last.op = "get_sign_star_sub" =>
                    /\ last.ret.longitude = 0
                    /\ last.ret.sign.name = "Aries"
                    /\ last.ret.star.name = "Ashwini"

\* get_sign_star_sub was called with 720 degrees
C8_Witness ==
    /\ last.op = "get_sign_star_sub"
    /\ last.longitude = [deg |-> 720, frac |-> 0]
    /\ ~Raised(last.ret)
    /\ last.ret.star.name = "Ashwini"

\* C9: at the first point of nakshatra k (0-based) get_star returns
\* nakshatra k+1 with position 0 and pada 1 and get_sub_lord returns that
\* nakshatra's own lord; longitude 0 is Aries at position 0, Ashwini
\* (index 1), pada 1, sub lord Ketu.
C9_FirstPointOfStar ==
    (last.op \in LordshipOps /\ PosInStar(last.longitude) = 0) =>
        LET k == StarOf(last.longitude)
        IN  /\ last.op = "get_star" =>
                  /\ last.ret.index = k + 1
                  /\ last.ret.name = NAKSHATRAS[k + 1].name
                  /\ last.ret.position_in_star = 0
                  /\ last.ret.pada = 1
            /\ last.op = "get_sub_lord" =>
                  /\ last.ret.lord = NAKSHATRAS[k + 1].lord
                  /\ last.ret.position_in_sub = 0
            /\ last.op = "get_sign_star_sub" =>
                  /\ last.ret.star.name = NAKSHATRAS[k + 1].name
                  /\ last.ret.star.pada = 1
                  /\ last.ret.sub_lord = NAKSHATRAS[k + 1].lord
            /\ (k = 0 /\ last.op = "get_sign") =>
                  /\ last.ret.name = "Aries"
                  /\ last.ret.position_in_sign = 0
            /\ (k = 0 /\ last.op = "get_star") => last.ret.name = "Ashwini"
            /\ (k = 0 /\ last.op = "get_sub_lord") => last.ret.lord = "Ketu"

\* get_sub_lord was called on the first point of Bharani, whose lord Venus
\* is not the first of the Vimshottari order
C9_Witness ==
    /\ last.op = "get_sub_lord"
    /\ last.longitude = Longitude(NAKSHATRA_SPAN)
    /\ last.ret.lord = "Venus"

RECURSIVE SumDurationDays(_, _)
SumDurationDays(periods, n) ==
    IF n = 0 THEN 0 ELSE SumDurationDays(periods, n - 1) + periods[n].duration_days

SubdivisionOps ==
    {"calculate_antardasha_periods", "calculate_pratyantardasha_periods",
     "calculate_sookshma_dasha_periods"}

\* C10: at every level the nine children's durations sum to the parent's
\* duration, so the last child ends when the parent ends.
C10_ChildrenSumToParent ==
    last.op \in SubdivisionOps =>
        /\ Len(last.ret) = 9
        /\ last.ret[9].end_date = last.parent.end_date
        /\ SumDurationDays(last.ret, 9) = last.parent.duration_days

(***************************************************************************)
(* Mahadasha sequence                                                      *)
(***************************************************************************)
\* the Moon's nakshatra (0-based), its lord and the part of it still ahead
MoonStar(moon_longitude) == moon_longitude \div NAKSHATRA_SPAN

MoonLord(moon_longitude) == NAKSHATRAS[MoonStar(moon_longitude) + 1].lord

MoonRemaining(moon_longitude) == NAKSHATRA_SPAN - (moon_longitude % NAKSHATRA_SPAN)

\* balance fraction x full period of the lord, in 1e-4 year: <<whole part, remainder>>
BalanceYears(moon_longitude) ==
    MulDivMod(MoonRemaining(moon_longitude),
              VIMSHOTTARI_PERIODS[MoonLord(moon_longitude)] * YearScale, NAKSHATRA_SPAN)

\* everything the sequence promises except the duration of period 0
MahadashaChain(moon_longitude, birth_datetime, periods) ==
    /\ Len(periods) \in {9, 18}
    /\ periods[1].start_date = birth_datetime
    /\ periods[1].planet = MoonLord(moon_longitude)
    /\ \A i \in 2..Len(periods) :
          /\ periods[i].planet =
                 OrderAt((OrderIndex(MoonLord(moon_longitude)) + i - 1) % 9)
          /\ periods[i].duration_years = VIMSHOTTARI_PERIODS[periods[i].planet] * YearScale
          /\ periods[i].start_date = periods[i - 1].end_date

HalfOpenAt(periods, cur, q) ==
    /\ cur # None =>
          /\ \E i \in 1..Len(periods) : periods[i] = cur
          /\ DateLE(cur.start_date, q) /\ DateLT(q, cur.end_date)
          /\ \A j \in 1..Len(periods) :
                (DateLE(periods[j].start_date, q) /\ DateLT(q, periods[j].end_date))
                    => periods[j] = cur
    /\ cur = None =>
          \A j \in 1..Len(periods) :
             ~(DateLE(periods[j].start_date, q) /\ DateLT(q, periods[j].end_date))

\* a query on the end of one of the first n periods of the list is in a later one
EndGoesToFollowing(periods, n, cur, q) ==
    \A i \in 1..n :
       q = periods[i].end_date => \E j \in (i + 1)..Len(periods) : cur = periods[j]

\* the lookup answered with nothing running
NothingRunning(r) ==
    /\ r.current_mahadasha = None /\ r.current_antardasha = None
    /\ r.current_pratyantardasha = None /\ r.current_sookshma_dasha = None
    /\ r.dasha_string = <<"N/A">>

\* C12: find_current_dasha tests start <= query < end at each of the four
\* levels, so the query is in at most one period of a level and a query on a
\* period's end is in the following period of that level; a query before the
\* reference instant or at/after the end of the 18th Mahadasha gets all four
\* periods None and dasha_string "N/A"
C12_HalfOpenEveryLevel ==
    last.op = "find_current_dasha" =>
        LET q == last.query_datetime
            r == last.ret
            mds == calculate_mahadasha_periods(last.moon_longitude,
                                               last.birth_datetime, 18)
            md == r.current_mahadasha
            ad == r.current_antardasha
            pad == r.current_pratyantardasha
        IN  /\ ~Raised(r)
            /\ (DateLT(q, last.birth_datetime) \/ DateLE(mds[18].end_date, q))
                   => NothingRunning(r)
            /\ HalfOpenAt(mds, md, q)
            /\ EndGoesToFollowing(mds, 17, md, q)
            /\ md # None =>
                  /\ HalfOpenAt(calculate_antardasha_periods(md), ad, q)
                  /\ EndGoesToFollowing(calculate_antardasha_periods(md), 9, ad, q)
            /\ ad # None =>
                  /\ HalfOpenAt(calculate_pratyantardasha_periods(ad), pad, q)
                  /\ EndGoesToFollowing(calculate_pratyantardasha_periods(ad), 9, pad, q)
            /\ pad # None =>
                  /\ HalfOpenAt(calculate_sookshma_dasha_periods(pad),
                                r.current_sookshma_dasha, q)
                  /\ EndGoesToFollowing(calculate_sookshma_dasha_periods(pad), 9,
                                        r.current_sookshma_dasha, q)

C14_JulianRoundTrip ==
    last.op = "julian_day_to_date" =>
        last.ret = <<last.year, last.month, last.day,
                     last.hour * 3600 + last.minute * 60 + last.second>>

(***************************************************************************)
(* Ayanamsa modes                                                          *)
(***************************************************************************)
ManualNames == {"manual", "Manual", "MANUAL"}

\* C15: in manual mode, whatever the case of the mode name and whatever the
\* Julian Day, calculate_ayanamsa returns the supplied value itself with the
\* label "Manual", and raises ValueError when no value is supplied
C15_ManualReturnsSuppliedValue ==
    (last.op = "calculate_ayanamsa" /\ last.ayanamsa_type \in ManualNames) =>
        IF last.manual_value = None
        THEN last.ret = Raise("ValueError")
        ELSE last.ret = <<last.manual_value, "Manual">>

\* a value of zero was supplied in manual mode written in capitals, for a day
\* on which the computed ayanamsa is not zero
C15_Witness ==
    /\ last.op = "calculate_ayanamsa"
    /\ last.ayanamsa_type = "MANUAL"
    /\ last.manual_value = Arc(0, 0)
    /\ last.ret = <<Arc(0, 0), "Manual">>
    /\ calculate_kp_new_ayanamsa(last.jd) # Arc(0, 0)

\* the instant 1900-01-01 00:00 UTC
BaseInstant == date_to_julian_day(BASE_YEAR, 1, 1, 0, 0, 0, 0)

\* a - b for two angles
ArcMinus(a, b) == Arc(a.arcsec - b.arcsec - 1, a.frac - b.frac + ArcUnit)

\* C16: for every Julian Day the new-mode value exceeds the old-mode value by
\* the constant 15.7 arc-seconds, and at 1900-01-01 00:00 UTC each mode returns
\* exactly its base, 22deg22'15.7" and 22deg22'00"
C16_ModesDifferByBase ==
    /\ last.op = "calculate_kp_new_ayanamsa" =>
          /\ ArcMinus(last.ret, calculate_kp_old_ayanamsa(last.jd))
                 = [arcsec |-> 15, frac |-> 7 * (ArcUnit \div 10)]
          /\ calculate_ayanamsa(last.jd, "new", None)[1] = last.ret
          /\ last.jd = BaseInstant =>
                last.ret = [arcsec |-> 80535, frac |-> 7 * (ArcUnit \div 10)]
    /\ last.op = "calculate_kp_old_ayanamsa" =>
          /\ ArcMinus(calculate_kp_new_ayanamsa(last.jd), last.ret)
                 = [arcsec |-> 15, frac |-> 7 * (ArcUnit \div 10)]
          /\ calculate_ayanamsa(last.jd, "old", None)[1] = last.ret
          /\ last.jd = BaseInstant => last.ret = [arcsec |-> 80520, frac |-> 0]

\* the new mode was computed for a day of 2024, where the precession is over
\* 6200 arc-seconds
C16_Witness ==
    /\ last.op = "calculate_kp_new_ayanamsa"
    /\ julian_day_to_date(last.jd)[1] = 2024
    /\ last.ret.arcsec > 80535 + 6200

(***************************************************************************)
(* Horary house rotation                                                   *)
(***************************************************************************)
\* the arc from cusp j to cusp i, in [0, 360)
Spacing(houses, i, j) == normalize_angle(AngleMinus(houses[i].longitude, houses[j].longitude))

AscendantAt(profile, c) ==
    _get_ascendant_at_time(profile, c \div 3600, (c % 3600) \div 60, c % 60)

\* the shortest arc between two angles in [0, 360), at most 180 degrees
ShortestArc(a, b) ==
    LET d == IF a >= b THEN a - b ELSE b - a
    IN  IF 2 * d > MicroPerTurn THEN MicroPerTurn - d ELSE d

\* the shortest arc from the target to the Ascendant at second c
Residual(c) == ShortestArc(last.target_longitude % MicroPerTurn, AscendantAt(last.profile, c))

\* C18: find_time_for_ascendant returns a time exactly when some second it
\* evaluated has its Ascendant less than 0.5 degrees (shortest arc) from the
\* target; the time returned is then an evaluated second with the smallest
\* such distance, and None is returned when every evaluated second is 0.5
\* degrees or more away
C18_FoundOnlyWhenClose ==
    last.op = "find_time_for_ascendant" =>
        /\ last.search.seen # {}
        /\ last.ret # None =>
              \E c \in last.search.seen :
                 /\ last.ret.time = <<c \div 3600, (c % 3600) \div 60, c % 60>>
                 /\ Residual(c) < 500000
                 /\ \A other \in last.search.seen : Residual(c) <= Residual(other)
        /\ (\A c \in last.search.seen : Residual(c) >= 500000) => last.ret = None
        /\ last.ret = None => \A c \in last.search.seen : Residual(c) >= 500000

\* not-found was reported, after more than one iteration, on a day whose
\* Ascendant never comes near the target
C18_Witness ==
    /\ last.op = "find_time_for_ascendant"
    /\ last.ret = None
    /\ last.search.iterations > 1
    /\ \A c \in last.search.seen : Residual(c) >= 500000

\* C19: when the target is the Ascendant of second t of the day, the time
\* returned is within 1 second of t
C19_RecoversKnownSecond ==
    last.op = "find_time_for_ascendant" =>
        \A i \in 1..Len(last.from_second) :
           /\ last.ret # None
           /\ LET found == last.ret.time[1] * 3600 + last.ret.time[2] * 60 + last.ret.time[3]
                  t == last.from_second[i]
              IN  found - t \in {0 - 1, 0, 1}

(***************************************************************************)
(* Dasha failure in the chart endpoints                                    *)
(***************************************************************************)
ChartCalls == {"calculate_chart", "calculate_horary_endpoint"}

\* C20: when the dasha computation raises inside calculate_chart or
\* calculate_horary_endpoint, the endpoint raises nothing and returns the chart
\* it had already built, unchanged and with no dasha section
C20_DashaFailureKeepsChart ==
    (last.op \in ChartCalls /\ last.dasha_error # None)
        => /\ ~Raised(last.ret)
           /\ last.ret = last.response
           /\ last.ret.dasha = None

\* get_full_dasha_info itself raised (a date beyond datetime.max) and the chart
\* was returned
C20_Witness ==
    /\ last.op \in ChartCalls
    /\ last.dasha_error = Raise("OverflowError")
    /\ ~Raised(last.ret)
    /\ last.ret.planets = last.response.planets

(***************************************************************************)
(* Sub-sub lord                                                            *)
(***************************************************************************)
\* index in the Vimshottari order of the lord of the j-th sub (0-based) of
\* nakshatra k
SubLordIndex(k, j) == (LordIndex(k) + j) % 9

\* the start and the span of that sub inside the nakshatra
SubStartOf(k, j) == SubBoundaryOffset(LordIndex(k), j)

SubSpanOf(k, j) == SubBoundaryOffset(LordIndex(k), j + 1) - SubBoundaryOffset(LordIndex(k), j)

C22_NineChildrenChained ==
    last.op \in SubdivisionOps =>
        /\ Len(last.ret) = 9
        /\ \A i \in 1..9 :
              last.ret[i].planet = OrderAt((OrderIndex(last.parent.planet) + i - 1) % 9)
        /\ last.ret[1].start_date = last.parent.start_date
        /\ \A i \in 2..9 : last.ret[i].start_date = last.ret[i - 1].end_date

\* a Pratyantardasha whose lord is not the first of the order was subdivided
\* into Sookshmas of non-zero length
C22_Witness ==
    /\ last.op = "calculate_sookshma_dasha_periods"
    /\ last.parent.planet = "Saturn"
    /\ Len(last.ret) = 9
    /\ last.ret[1].planet = "Saturn"
    /\ last.ret[2].planet = "Mercury"
    /\ last.ret[3].planet = "Ketu"
    /\ DateLT(last.ret[1].start_date, last.ret[1].end_date)
    /\ last.ret[2].start_date = last.ret[1].end_date

\* C23: whenever find_current_dasha finds a current Mahadasha it also finds a
\* current Antardasha, Pratyantardasha and Sookshma, and dasha_string has the
\* four lords in that order.
C23_FullChainFound ==
    (last.op = "find_current_dasha" /\ last.ret.current_mahadasha # None) =>
        /\ last.ret.current_antardasha # None
        /\ last.ret.current_pratyantardasha # None
        /\ last.ret.current_sookshma_dasha # None
        /\ Len(last.ret.dasha_string) = 4

\* C27: every child of a subdivision lies inside its parent:
\* parent.start_date <= child.start_date <= child.end_date <= parent.end_date.
C27_ChildrenInsideParent ==
    last.op \in SubdivisionOps =>
        \A i \in 1..Len(last.ret) :
            /\ DateLE(last.parent.start_date, last.ret[i].start_date)
            /\ DateLE(last.ret[i].start_date, last.ret[i].end_date)
            /\ DateLE(last.ret[i].end_date, last.parent.end_date)

(***************************************************************************)
(* Placidus cusps                                                          *)
(***************************************************************************)
\* the arc from a forward to b, in [0, 360)
ForwardArc(a, b) ==
    LET d == AngleMinus(b, a)
    IN  Angle(d.deg % 360, d.frac)

AngleTimes(a, k) == Angle(k * a.deg, k * a.frac)

InTurn(a) == a.deg \in 0..359 /\ a.frac \in 0..(FineUnit - 1)

\* cusps first and second are at one third and two thirds of the arc from
\* cusp from forward to cusp to
Trisects(cusps, from, first, second, to) ==
    LET arc == ForwardArc(cusps[from], cusps[to])
    IN  /\ AngleTimes(ForwardArc(cusps[from], cusps[first]), 3) = arc
        /\ AngleTimes(ForwardArc(cusps[from], cusps[second]), 3) = AngleTimes(arc, 2)

\* C24: calculate_placidus_cusps sets cusp 1 = ASC, cusp 10 = MC, cusp 4 =
\* MC + 180 and cusp 7 = ASC + 180 (mod 360), places cusps 11/12, 2/3, 5/6 and
\* 8/9 at one third and two thirds of the forward arcs MC->ASC, ASC->IC,
\* IC->DESC and DESC->MC, and returns all twelve cusps in [0, 360).
C24_PlacidusCusps ==
    last.op = "rotate_house_cusps" =>
        LET cusps == last.tropical_cusps
        IN  /\ Len(cusps) = 12
            /\ cusps[1] = last.tropical_asc
            /\ cusps[10] = last.tropical_mc
            /\ ForwardArc(last.tropical_mc, cusps[4]) = Angle(180, 0)
            /\ ForwardArc(last.tropical_asc, cusps[7]) = Angle(180, 0)
            /\ Trisects(cusps, 10, 11, 12, 1)
            /\ Trisects(cusps, 1, 2, 3, 4)
            /\ Trisects(cusps, 4, 5, 6, 7)
            /\ Trisects(cusps, 7, 8, 9, 10)
            /\ \A house_num \in 1..12 : InTurn(cusps[house_num])

\* the Midheaven is ahead of the Descendant only across 0 degrees, and the
\* arc from the Midheaven to the Ascendant spans more than a half turn
C24_Witness ==
    /\ last.op = "rotate_house_cusps"
    /\ AngleLT(last.tropical_mc, last.tropical_cusps[7])
    /\ AngleLT(last.tropical_asc, last.tropical_mc)
    /\ AngleLT(last.tropical_cusps[12], last.tropical_cusps[11])
    /\ AngleLT(Angle(180, 0), ForwardArc(last.tropical_mc, last.tropical_asc))

(***************************************************************************)
(* Time finder: termination and the bracket                                *)
(***************************************************************************)
\* the brackets of a search in order: the one each pass began with, then the
\* one the search stopped with
Brackets(search) ==
    [i \in 1..(Len(search.passes) + 1) |->
        IF i <= Len(search.passes)
        THEN <<search.passes[i].low, search.passes[i].high>>
        ELSE <<search.low, search.high>>]

EarlyReturn(search) ==
    /\ Len(search.passes) > 0
    /\ search.passes[Len(search.passes)].branch = "return"

\* C25: _binary_search_ascendant exits after at most 50 iterations, by early
\* return (best_diff < 0.01), by the bracket width falling to the 1-second
\* tolerance, or by reaching the iteration cap.
C25_SearchTerminates ==
    last.op = "find_time_for_ascendant" =>
        /\ last.search.iterations = Len(last.search.passes)
        /\ last.search.iterations <= max_iterations
        /\ \/ EarlyReturn(last.search) /\ last.search.best_diff < 10000
           \/ last.search.high - last.search.low <= 1
           \/ last.search.iterations = max_iterations

\* a search that never came within 0.01 degrees ended on the bracket width
C25_Witness ==
    /\ last.op = "find_time_for_ascendant"
    /\ ~EarlyReturn(last.search)
    /\ last.search.iterations >= 10
    /\ last.search.high - last.search.low <= 1
    /\ last.search.best_diff >= 10000

\* C26: in every iteration that does not return, 0 <= low <= high <= 86399
\* and the new width is at most the ceiling of half the previous width, in all
\* three branches, so the loop ends by width within 17 iterations and the
\* 50-iteration cap is never what stops it.
C26_BracketShrinks ==
    last.op = "find_time_for_ascendant" =>
        LET search == last.search
            brackets == Brackets(search)
        IN  /\ \A i \in 1..Len(brackets) :
                  /\ 0 <= brackets[i][1]
                  /\ brackets[i][1] <= brackets[i][2]
                  /\ brackets[i][2] <= 86399
            /\ \A i \in 1..Len(search.passes) :
                  search.passes[i].branch # "return" =>
                      2 * (brackets[i + 1][2] - brackets[i + 1][1])
                          <= (brackets[i][2] - brackets[i][1]) + 1
            /\ search.iterations <= 17
            /\ EarlyReturn(search) \/ search.high - search.low <= 1

\* one search took all three branches, the refinement around a best match that
\* is neither end of the bracket included
C26_Witness ==
    /\ last.op = "find_time_for_ascendant"
    /\ \E i, j, k \in 1..Len(last.search.passes) :
          /\ last.search.passes[i].branch = "first_half"
          /\ last.search.passes[j].branch = "second_half"
          /\ last.search.passes[k].branch = "refine"
          /\ Brackets(last.search)[k + 1][1] # last.search.passes[k].low
          /\ Brackets(last.search)[k + 1][2] # last.search.passes[k].high

(***************************************************************************)
(* Dasha balance over the closed range of Moon longitudes                  *)
(***************************************************************************)
\* C28: for every Moon longitude in the closed range [0, 360],
\* position_in_nakshatra is in [0, 13deg20'), the balance is never negative
\* and does not exceed the full period, and every Mahadasha ends no earlier
\* than it starts.
C28_BalanceNeverNegative ==
    /\ last.op = "calculate_dasha_balance" =>
          /\ 0 <= last.ret.position_in_nakshatra
          /\ last.ret.position_in_nakshatra <= Round6(NAKSHATRA_SPAN)
          /\ last.moon_longitude - (last.ret.nakshatra_index - 1) * NAKSHATRA_SPAN
                \in 0..(NAKSHATRA_SPAN - 1)
          /\ 0 <= last.ret.balance_years
          /\ last.ret.balance_years
                <= VIMSHOTTARI_PERIODS[last.ret.birth_dasha_lord] * YearScale
          /\ 0 <= last.ret.balance_days
          /\ DateLE(last.birth_datetime, last.ret.dasha_end_date)
    /\ last.op = "calculate_mahadasha_periods" =>
          \A i \in 1..Len(last.ret) :
              /\ DateLE(last.ret[i].start_date, last.ret[i].end_date)
              /\ 0 <= last.ret[i].duration_days

(***************************************************************************)
(* Concurrent readers of the horary cache                                  *)
(***************************************************************************)
\* C29: under any interleaving, get_horary_info(n) and get_horary_degree(n)
\* for n in 1..249 never fail, and no caller is ever in a state where
\* HORARY_TABLE is non-empty while HORARY_INFO is still empty.
C29_NoPartialCache ==
    /\ \A t \in Threads :
          (/\ threads[t].pc = "done"
           /\ threads[t].op \in {"get_horary_info", "get_horary_degree"}
           /\ threads[t].horary_number \in 1..MaxHoraryNumber)
              => ~Raised(threads[t].ret)
    /\ (\E t \in Threads : threads[t].pc \in {"test", "gen_test", "read"})
          => ~(HORARY_TABLE # << >> /\ HORARY_INFO = << >>)

(***************************************************************************)
(* IEEE-754 binary64 arithmetic (round to nearest, ties to even) on the    *)
(* non-negative values the lordship walk and the table construction use.   *)
(* A natural number is a sequence of limbs below LimbBase, least           *)
(* significant first, without a leading zero limb; a double is             *)
(* [m |-> mantissa, e |-> exponent], the number m * 2^e with m of exactly  *)
(* 53 bits, or m = << >> for 0.0.                                           *)
(***************************************************************************)
\* limbs of 15 bits: the product of two limbs fits a 31-bit integer
LimbBits == 30 \div 2

LimbBase == 2^LimbBits

\* 52 stored bits and the leading one
MantissaBits == 52 + 1

RECURSIVE BigOf(_)
BigOf(n) == IF n = 0 THEN << >> ELSE <<n % LimbBase>> \o BigOf(n \div LimbBase)

RECURSIVE BigTrim(_)
BigTrim(a) ==
    IF a # << >> /\ a[Len(a)] = 0 THEN BigTrim(SubSeq(a, 1, Len(a) - 1)) ELSE a

Limb(a, i) == IF i <= Len(a) THEN a[i] ELSE 0

RECURSIVE BigAddFrom(_, _, _, _)
BigAddFrom(a, b, i, carry) ==
    IF i > Len(a) /\ i > Len(b) THEN (IF carry = 0 THEN << >> ELSE <<carry>>)
    ELSE <<(Limb(a, i) + Limb(b, i) + carry) % LimbBase>>
         \o BigAddFrom(a, b, i + 1, (Limb(a, i) + Limb(b, i) + carry) \div LimbBase)

BigAdd(a, b) == BigAddFrom(a, b, 1, 0)

\* a - b for a >= b
RECURSIVE BigSubFrom(_, _, _, _)
BigSubFrom(a, b, i, borrow) ==
    IF i > Len(a) THEN << >>
    ELSE <<(a[i] - Limb(b, i) - borrow) % LimbBase>>
         \o BigSubFrom(a, b, i + 1, IF a[i] - Limb(b, i) - borrow < 0 THEN 1 ELSE 0)

BigSub(a, b) == BigTrim(BigSubFrom(a, b, 1, 0))

\* -1, 0 or 1 as a < b, a = b or a > b
RECURSIVE BigCmpFrom(_, _, _)
BigCmpFrom(a, b, i) ==
    IF i = 0 THEN 0
    ELSE IF a[i] < b[i] THEN 0 - 1
    ELSE IF a[i] > b[i] THEN 1
    ELSE BigCmpFrom(a, b, i - 1)

BigCmp(a, b) ==
    IF Len(a) < Len(b) THEN 0 - 1
    ELSE IF Len(a) > Len(b) THEN 1
    ELSE BigCmpFrom(a, b, Len(a))

\* a * k for 0 <= k < LimbBase
RECURSIVE BigMulSmallFrom(_, _, _, _)
BigMulSmallFrom(a, k, i, carry) ==
    IF i > Len(a) THEN BigOf(carry)
    ELSE <<(a[i] * k + carry) % LimbBase>>
         \o BigMulSmallFrom(a, k, i + 1, (a[i] * k + carry) \div LimbBase)

BigMulSmall(a, k) == IF k = 0 THEN << >> ELSE BigMulSmallFrom(a, k, 1, 0)

\* a * LimbBase^n
BigShlLimbs(a, n) == IF a = << >> THEN << >> ELSE [i \in 1..n |-> 0] \o a

RECURSIVE BigMulFrom(_, _, _, _)
BigMulFrom(a, b, i, acc) ==
    IF i = 0 THEN acc
    ELSE BigMulFrom(a, b, i - 1, BigAdd(BigMulSmall(a, b[i]), BigShlLimbs(acc, 1)))

BigMul(a, b) == BigMulFrom(a, b, Len(b), << >>)

\* <<a div k, a mod k>> for 0 < k <= LimbBase
RECURSIVE BigDivSmallFrom(_, _, _, _, _)
BigDivSmallFrom(a, k, i, r, q) ==
    IF i = 0 THEN <<BigTrim(q), r>>
    ELSE BigDivSmallFrom(a, k, i - 1, (r * LimbBase + a[i]) % k,
                         <<(r * LimbBase + a[i]) \div k>> \o q)

BigDivSmall(a, k) == BigDivSmallFrom(a, k, Len(a), 0, << >>)

\* a * 2^s and a div 2^s
BigShl(a, s) == BigMulSmall(BigShlLimbs(a, s \div LimbBits), 2^(s % LimbBits))

BigShr(a, s) ==
    IF s \div LimbBits >= Len(a) THEN << >>
    ELSE BigDivSmall(SubSeq(a, s \div LimbBits + 1, Len(a)), 2^(s % LimbBits))[1]

RECURSIVE BitLen(_)
BitLen(x) == IF x = 0 THEN 0 ELSE 1 + BitLen(x \div 2)

BigBitLen(a) == IF a = << >> THEN 0 ELSE LimbBits * (Len(a) - 1) + BitLen(a[Len(a)])

\* the value of a natural number below 2^30
SmallOf(a) == Limb(a, 1) + LimbBase * Limb(a, 2)

Zero64 == [m |-> << >>, e |-> 0]

\* q * 2^e with q of 53 or 54 bits, renormalized
Normal64(q, e) ==
    IF BigBitLen(q) > MantissaBits THEN [m |-> BigShr(q, 1), e |-> e + 1]
    ELSE [m |-> q, e |-> e]

\* n * 2^e cut to 53 bits at bit s, rounded to nearest, a tie going to the
\* even mantissa; sticky says that the exact value is a little above n * 2^e
RoundAt(n, e, sticky, s, q) ==
    LET c == BigCmp(BigSub(n, BigShl(q, s)), BigShl(<<1>>, s - 1))
    IN  Normal64(IF c > 0 \/ (c = 0 /\ (sticky \/ q[1] % 2 = 1))
                 THEN BigAdd(q, <<1>>) ELSE q, e + s)

RoundValue(n, e, sticky) ==
    IF n = << >> THEN Zero64
    ELSE IF BigBitLen(n) <= MantissaBits
    THEN [m |-> BigShl(n, MantissaBits - BigBitLen(n)),
          e |-> e - (MantissaBits - BigBitLen(n))]
    ELSE TheOne({ RoundAt(n, e, sticky, BigBitLen(n) - MantissaBits, q) :
                      q \in {BigShr(n, BigBitLen(n) - MantissaBits)} })

\* the double nearest to n * 2^e
Round64(n, e, sticky) == TheOne({ RoundValue(v, e, sticky) : v \in {n} })

\* float(n) of an int
Float(n) == Round64(BigOf(n), 0, FALSE)

\* x + y
FAdd(x, y) ==
    TheOne({ IF a.m = << >> THEN b
             ELSE IF b.m = << >> THEN a
             ELSE IF a.e <= b.e THEN Round64(BigAdd(a.m, BigShl(b.m, b.e - a.e)), a.e, FALSE)
             ELSE Round64(BigAdd(BigShl(a.m, a.e - b.e), b.m), b.e, FALSE) :
             a \in {x}, b \in {y} })

\* x < y
FLess(x, y) ==
    TheOne({ IF b.m = << >> THEN FALSE
             ELSE IF a.m = << >> THEN TRUE
             ELSE a.e < b.e \/ (a.e = b.e /\ BigCmp(a.m, b.m) < 0) :
             a \in {x}, b \in {y} })

\* x - y for x >= y
FSub(x, y) ==
    TheOne({ IF b.m = << >> THEN a
             ELSE IF a.e <= b.e THEN Round64(BigSub(a.m, BigShl(b.m, b.e - a.e)), a.e, FALSE)
             ELSE Round64(BigSub(BigShl(a.m, a.e - b.e), b.m), b.e, FALSE) :
             a \in {x}, b \in {y} })

\* x * y
FMul(x, y) ==
    TheOne({ IF a.m = << >> \/ b.m = << >> THEN Zero64
             ELSE Round64(BigMul(a.m, b.m), a.e + b.e, FALSE) :
             a \in {x}, b \in {y} })

\* one step of the long division of s = <<remainder, quotient>> by d: the
\* quotient takes its next bit and the remainder is doubled
DivStep(s, d) ==
    IF BigCmp(s[1], d) >= 0
    THEN <<BigMulSmall(BigSub(s[1], d), 2), BigAdd(BigMulSmall(s[2], 2), <<1>>)>>
    ELSE <<BigMulSmall(s[1], 2), BigMulSmall(s[2], 2)>>

DivSteps2(s, d) == TheOne({ DivStep(t, d) : t \in {DivStep(s, d)} })

DivSteps4(s, d) == TheOne({ DivSteps2(t, d) : t \in {DivSteps2(s, d)} })

DivSteps8(s, d) == TheOne({ DivSteps4(t, d) : t \in {DivSteps4(s, d)} })

DivSteps16(s, d) == TheOne({ DivSteps8(t, d) : t \in {DivSteps8(s, d)} })

DivSteps32(s, d) == TheOne({ DivSteps16(t, d) : t \in {DivSteps16(s, d)} })

\* 56 steps: the quotient's 53 bits, the bits that decide the rounding, and
\* what is left of the dividend
DivSteps(s, d) ==
    TheOne({ DivSteps8(u, d) : u \in { TheOne({ DivSteps16(t, d) : t \in {DivSteps32(s, d)} }) } })

\* x / y when the mantissa of y is its top limb alone, as for 2.0, 30.0 and
\* 120.0: one pass of short division
FDivShort(a, b) ==
    TheOne({ Round64(qr[1], a.e - b.e - LimbBits * Len(b.m), qr[2] # 0) :
             qr \in {BigDivSmall(BigShlLimbs(a.m, 1), b.m[Len(b.m)])} })

\* x / y by the 56 steps of the long division
FDivLong(a, b) ==
    TheOne({ Round64(qr[2], a.e - b.e - (MantissaBits + 2), qr[1] # << >>) :
             qr \in {DivSteps(<<a.m, << >> >>, b.m)} })

\* x / y for y > 0
FDiv(x, y) ==
    TheOne({ IF a.m = << >> THEN Zero64
             ELSE IF \A i \in 1..(Len(b.m) - 1) : b.m[i] = 0 THEN FDivShort(a, b)
             ELSE FDivLong(a, b) :
             a \in {x}, b \in {y} })

\* int(x), below 2^30
FInt(x) ==
    TheOne({ IF a.m = << >> THEN 0
             ELSE IF a.e >= 0 THEN SmallOf(BigShl(a.m, a.e))
             ELSE SmallOf(BigShr(a.m, 0 - a.e)) :
             a \in {x} })

(***************************************************************************)
(* The horary table and the lordship resolver in double precision          *)
(* (app/services/horary.py, app/services/sublord.py): the same code as the *)
(* exact definitions above, with every operation rounded as the            *)
(* interpreter rounds it.                                                  *)
(***************************************************************************)
\* NAKSHATRA_SPAN = 13.0 + 20.0 / 60.0
NAKSHATRA_SPAN_double == FAdd(Float(13), FDiv(Float(20), Float(60)))

\* sub_span = (period / TOTAL_DASHA_YEARS) * NAKSHATRA_SPAN, for the planet
\* at each place of the Vimshottari order
sub_span_double ==
    [i \in 1..9 |->
        FMul(FDiv(Float(VIMSHOTTARI_PERIODS[VIMSHOTTARI_ORDER[i]]), Float(TOTAL_DASHA_YEARS)),
             NAKSHATRA_SPAN_double)]

\* the literal 0.000001: the double nearest to 1 / 1000000
boundary_epsilon_double == FDiv(Float(1), Float(1000000))

\* next_boundary < abs_end - 0.000001, where
\* next_boundary = (int(abs_start / 30) + 1) * 30.0
sub_intervals_double(abs_start, abs_end) ==
    TheOne({ IF FLess(next_boundary, FSub(abs_end, boundary_epsilon_double))
             THEN << <<abs_start, next_boundary>>, <<next_boundary, abs_end>> >>
             ELSE << <<abs_start, abs_end>> >> :
             next_boundary \in {FMul(Float(FInt(FDiv(abs_start, Float(30))) + 1), Float(30))} })

\* mid_point = (interval_start + interval_end) / 2
mid_point_double(interval_start, interval_end) ==
    FDiv(FAdd(interval_start, interval_end), Float(2))

\* the record stored in horary_info for one interval, with
\* sign_index = int(mid_point / 30) % 12
horary_entry_double(interval, nakshatra, sub_lord) ==
    TheOne({ [start_longitude |-> interval[1],
              end_longitude |-> interval[2],
              sign_lord |-> current_sign.lord,
              star_lord |-> nakshatra.lord,
              sub_lord |-> sub_lord,
              sign |-> current_sign.name,
              nakshatra |-> nakshatra.name] :
             current_sign \in {ZODIAC_SIGNS[
                 (FInt(FDiv(mid_point_double(interval[1], interval[2]), Float(30))) % 12) + 1]} })

\* the entries of one sub, whose absolute start is nak_start + sub_position
horary_sub_double(nakshatra, sub_lord, abs_start, sub_span) ==
    TheOne({ [k \in 1..Len(intervals) |-> horary_entry_double(intervals[k], nakshatra, sub_lord)] :
             intervals \in {sub_intervals_double(abs_start, FAdd(abs_start, sub_span))} })

\* the inner loop `for sub_i in range(9)` of one nakshatra, from sub_i with
\* the running sub_position
RECURSIVE horary_subs_double(_, _, _)
horary_subs_double(nak_index, sub_i, sub_position) ==
    IF sub_i >= 9 THEN << >>
    ELSE TheOne({ horary_sub_double(NAKSHATRAS[nak_index + 1], OrderAt(planet_index),
                                    FAdd(FMul(Float(nak_index), NAKSHATRA_SPAN_double), position),
                                    sub_span_double[planet_index + 1])
                  \o horary_subs_double(nak_index, sub_i + 1,
                                        FAdd(position, sub_span_double[planet_index + 1])) :
                  position \in {sub_position},
                  planet_index \in {(OrderIndex(NAKSHATRAS[nak_index + 1].lord) + sub_i) % 9} })

\* the outer loop `for nak_index in range(27)`
RECURSIVE horary_stars_double(_)
horary_stars_double(nak_index) ==
    IF nak_index >= 27 THEN << >>
    ELSE horary_subs_double(nak_index, 0, Zero64) \o horary_stars_double(nak_index + 1)

\* HORARY_INFO as the construction loop leaves it
built_horary_info_double == horary_stars_double(0)

\* `while longitude >= 360: longitude -= 360.0`, for a longitude that is not
\* negative
RECURSIVE normalize_longitude_double(_)
normalize_longitude_double(longitude) ==
    IF FLess(longitude, Float(360)) THEN longitude
    ELSE normalize_longitude_double(FSub(longitude, Float(360)))

\* sign_index = int(longitude / 30.0)
get_sign_double(longitude) ==
    ListAt(ZODIAC_SIGNS, FInt(FDiv(longitude, Float(30))))

\* star_index = int(longitude / NAKSHATRA_SPAN); if star_index >= 27: star_index = 0
star_index_double(longitude) ==
    TheOne({ IF star_index >= 27 THEN 0 ELSE star_index :
             star_index \in {FInt(FDiv(longitude, NAKSHATRA_SPAN_double))} })

\* the loop `for i in range(9)` of get_sub_lord from iteration i: the first
\* planet with position_in_star < accumulated + sub_span, if there is one
RECURSIVE walk_double(_, _, _, _)
walk_double(position_in_star, start_index, i, accumulated) ==
    IF i >= 9 THEN [found |-> FALSE]
    ELSE TheOne({ IF FLess(position_in_star, sub_end)
                  THEN [found |-> TRUE, lord |-> OrderAt((start_index + i) % 9)]
                  ELSE walk_double(position_in_star, start_index, i + 1, sub_end) :
                  sub_end \in {FAdd(accumulated, sub_span_double[((start_index + i) % 9) + 1])} })

\* position_in_star = longitude - (star_index * NAKSHATRA_SPAN); a negative
\* position is below the first boundary
get_sub_lord_double(longitude) ==
    TheOne({ IF FLess(longitude, star_start) THEN OrderAt(start_index)
             ELSE TheOne({ IF w.found THEN w.lord ELSE OrderAt((start_index + 8) % 9) :
                           w \in {walk_double(FSub(longitude, star_start), start_index, 0, Zero64)} }) :
             star_start \in {FMul(Float(star_index_double(longitude)), NAKSHATRA_SPAN_double)},
             start_index \in {OrderIndex(NAKSHATRAS[star_index_double(longitude) + 1].lord)} })

\* the sign, star and sub lord fields of get_sign_star_sub's result
get_sign_star_sub_double(longitude) ==
    TheOne({ [sign |-> [name |-> get_sign_double(lon).name, lord |-> get_sign_double(lon).lord],
              star |-> [name |-> NAKSHATRAS[star_index_double(lon) + 1].name,
                        lord |-> NAKSHATRAS[star_index_double(lon) + 1].lord],
              sub_lord |-> get_sub_lord_double(lon)] :
             lon \in {normalize_longitude_double(longitude)} })

\* the largest double below x, for x > 0
previous_double(x) ==
    IF BigBitLen(BigSub(x.m, <<1>>)) < MantissaBits
    THEN [m |-> BigSub(BigShl(x.m, 1), <<1>>), e |-> x.e - 1]
    ELSE [m |-> BigSub(x.m, <<1>>), e |-> x.e]

\* the longitudes of an entry that are resolved: its start, its midpoint and
\* the last double before its end
EntryPoints == {"start", "mid_point", "last"}

entry_longitude(entry, point) ==
    IF point = "start" THEN entry.start_longitude
    ELSE IF point = "mid_point" THEN mid_point_double(entry.start_longitude, entry.end_longitude)
    ELSE previous_double(entry.end_longitude)

\* get_sign_star_sub at a longitude of the entry of a horary number
Call_get_sign_star_sub_of_entry ==
    /\ last.op = "idle"
    /\ \E horary_number \in 1..MaxHoraryNumber, point \in EntryPoints :
          \E longitude \in {entry_longitude(built_horary_info_double[horary_number], point)} :
              last' = [op |-> "get_sign_star_sub_of_entry",
                       horary_number |-> horary_number,
                       point |-> point,
                       longitude |-> longitude,
                       entry |-> built_horary_info_double[horary_number],
                       ret |-> get_sign_star_sub_double(longitude)]
    /\ UNCHANGED <<HORARY_TABLE, HORARY_INFO, builds, threads>>

NextAgreement ==
    \/ Call_get_sign_star_sub_of_entry
    \/ Return

SpecAgreement == Init /\ [][NextAgreement]_vars

\* C30: for every horary number n and every longitude L of its entry's
\* interval [start_longitude, end_longitude), its start in particular,
\* get_sign_star_sub(L) gives the sign, sign lord, star lord and sub lord
\* that the entry records.
C30_TableAgreesWithResolver ==
    last.op = "get_sign_star_sub_of_entry" =>
        /\ last.ret.sign.name = last.entry.sign
        /\ last.ret.sign.lord = last.entry.sign_lord
        /\ last.ret.star.lord = last.entry.star_lord
        /\ last.ret.sub_lord = last.entry.sub_lord

====
